---- MODULE Spec2Model ----
(***************************************************************************)
(* Model of the ERC1155 token connector: the subscription reconciler       *)
(* (TokensService.migrationCheck), the lazy resolution of the event-stream *)
(* handle (TokensService.getStream) and the operations that use it.        *)
(*                                                                         *)
(* Wire strings are modelled by their segments: a string that the code     *)
(* builds with join(':') is the sequence of its parts, each part being the *)
(* sequence of its own fields.  An absent (undefined) value is a sentinel. *)
(***************************************************************************)
EXTENDS Integers, Sequences, FiniteSets, TLC

VARIABLES
    streams,      \* the event-stream directory: the set of streams {id, name}
    subs,         \* the event-stream directory: the listing of subscriptions
    stream,       \* TokensService.stream, the cached stream handle
    proxyTopic,   \* the stream name handed to proxy.configure by onConnect
    op,           \* per task: the operation it runs
    pc,           \* per task: the await point it stands at
    loc,          \* per task: the locals of the running operation
    opsLeft,      \* operations that may still be started
    supportsCustomUri,   \* TokensService.supportsCustomUri, the cached probe result
    queries,      \* the contract queries issued so far, by method name
    sink,         \* the values handed to the event processor, in order
    frame,        \* per task: the locals of the listener and of the probe
    history,      \* the operations that have returned, where they are recorded
    uriPattern    \* the legacy TokenListener.uriPattern, the cached URI pattern

vars == <<streams, subs, stream, proxyTopic, op, pc, loc, opsLeft,
          supportsCustomUri, queries, sink, frame, history,
          uriPattern>>

-----------------------------------------------------------------------------
(* Bounds of the model *)

MaxSubs == 5          \* longest subscription listing drawn as an input
MaxOps == 2           \* operations started in one behaviour
MaxForeign == 1       \* subscriptions the directory holds before the connector starts
MaxBatch == 2         \* most entries of a batch-transfer event
MaxCalls == 4         \* operations of one behaviour of the pool life cycle

Tasks == {"t1", "t2"}

-----------------------------------------------------------------------------
(* Program constants and configuration *)

BASE_SUBSCRIPTION_NAME == "base"
tokenCreateEvent == "TokenPoolCreation"
transferSingleEvent == "TransferSingle"
transferBatchEvent == "TransferBatch"
approvalForAllEvent == "ApprovalForAll"

ALL_SUBSCRIBED_EVENTS ==
    <<tokenCreateEvent, transferSingleEvent, transferBatchEvent, approvalForAllEvent>>

topic == "tokens"
instancePath == "/contracts/erc1155"

Undef == "<undefined>"            \* an undefined string
UndefLocator == <<Undef>>         \* an undefined pool locator
NoStream == [id |-> 0, name |-> <<>>]   \* this.stream === undefined
NoPattern == <<Undef>>            \* the legacy uriPattern === undefined

-----------------------------------------------------------------------------
(* Identifier codec (tokens.util) *)

SUBSCRIPTION_PREFIX == "fft"

packStreamName(prefix, path) == <<prefix, path>>

packPoolLocator(poolId, blockNumber) ==
    IF blockNumber = Undef THEN <<poolId>> ELSE <<poolId, blockNumber>>

unpackPoolLocator(data) ==
    [poolId |-> data[1],
     blockNumber |-> IF Len(data) >= 2 THEN data[2] ELSE Undef]

packSubscriptionName(path, poolLocator, event, poolData) ==
    IF poolData # Undef
    THEN <<<<SUBSCRIPTION_PREFIX>>, <<path>>, poolLocator, <<event>>, <<poolData>>>>
    ELSE <<<<SUBSCRIPTION_PREFIX>>, <<path>>, poolLocator, <<event>>>>

unpackSubscriptionName(data) ==
    IF Len(data) \in {4, 5} /\ data[1] = <<SUBSCRIPTION_PREFIX>>
    THEN [instancePath |-> data[2][1],
          poolLocator |-> data[3],
          event |-> data[4][1],
          poolData |-> IF Len(data) = 5 THEN data[5][1] ELSE Undef]
    ELSE [instancePath |-> Undef,
          poolLocator |-> UndefLocator,
          event |-> Undef,
          poolData |-> Undef]

-----------------------------------------------------------------------------
(* migrationCheck: the synchronous parts between its await points *)

canonicalName == packStreamName(topic, instancePath)
legacyName == <<topic>>

baseSubscription ==
    packSubscriptionName(instancePath, <<BASE_SUBSCRIPTION_NAME>>, tokenCreateEvent, Undef)

HasStream(list, name) == \E s \in list : s.name = name

FindByName(list, name) == CHOOSE s \in list : s.name = name

\* a lookup that falls back to whatever stream the directory holds
FindStreamAny(list) ==
    IF HasStream(list, canonicalName) THEN FindByName(list, canonicalName)
    ELSE IF HasStream(list, legacyName) THEN FindByName(list, legacyName)
    ELSE IF list # {} THEN CHOOSE s \in list : TRUE
    ELSE NoStream

\* a lookup that tries the legacy name first
FindStreamLegacyFirst(list) ==
    IF HasStream(list, legacyName) THEN FindByName(list, legacyName)
    ELSE IF HasStream(list, canonicalName) THEN FindByName(list, canonicalName)
    ELSE NoStream

\* streams.find(name) ?? streams.find(topic); NoStream when neither exists
FindStream(list) ==
    IF HasStream(list, canonicalName) THEN FindByName(list, canonicalName)
    ELSE IF HasStream(list, legacyName) THEN FindByName(list, legacyName)
    ELSE NoStream

\* a filter that keeps the subscriptions of every stream
FilterByStreamAll(all, streamId) == all

\* allSubscriptions.filter(s => s.stream === streamId)
FilterByStream(all, streamId) == SelectSeq(all, LAMBDA s : s.stream = streamId)

IsParseable(parts) == parts.poolLocator # UndefLocator /\ parts.event # Undef

GroupKey(parts) ==
    packSubscriptionName(parts.instancePath, parts.poolLocator, "", parts.poolData)

Includes(events, event) == \E i \in 1..Len(events) : events[i] = event

\* foundEvents is a Map in insertion order: a sequence of [key, events]
MapHas(found, key) == \E i \in 1..Len(found) : found[i].key = key

MapPush(found, key, event) ==
    IF MapHas(found, key)
    THEN [i \in 1..Len(found) |->
            IF found[i].key = key
            THEN [key |-> key, events |-> Append(found[i].events, event)]
            ELSE found[i]]
    ELSE Append(found, [key |-> key, events |-> <<event>>])

\* a first loop that passes over the names that do not decode
RECURSIVE CollectEventsSkipping(_, _)
CollectEventsSkipping(list, found) ==
    IF list = <<>> THEN [nonParseable |-> FALSE, foundEvents |-> found]
    ELSE LET sub == Head(list)
             parts == unpackSubscriptionName(sub.name)
         IN IF sub.name = baseSubscription \/ ~IsParseable(parts)
            THEN CollectEventsSkipping(Tail(list), found)
            ELSE CollectEventsSkipping(Tail(list),
                                       MapPush(found, GroupKey(parts), parts.event))

\* a first loop that takes the base subscription for a pool of its own
RECURSIVE CollectEventsCountingBase(_, _)
CollectEventsCountingBase(list, found) ==
    IF list = <<>> THEN [nonParseable |-> FALSE, foundEvents |-> found]
    ELSE LET sub == Head(list)
             parts == unpackSubscriptionName(sub.name)
         IN IF ~IsParseable(parts)
            THEN [nonParseable |-> TRUE, foundEvents |-> found]
            ELSE CollectEventsCountingBase(Tail(list),
                                           MapPush(found, GroupKey(parts), parts.event))

\* first loop: skip the base subscription, stop at the first name that does
\* not decode, otherwise collect the event names by pool key
RECURSIVE CollectEvents(_, _)
CollectEvents(list, found) ==
    IF list = <<>> THEN [nonParseable |-> FALSE, foundEvents |-> found]
    ELSE LET sub == Head(list)
             parts == unpackSubscriptionName(sub.name)
         IN IF sub.name = baseSubscription
            THEN CollectEvents(Tail(list), found)
            ELSE IF ~IsParseable(parts)
            THEN [nonParseable |-> TRUE, foundEvents |-> found]
            ELSE CollectEvents(Tail(list), MapPush(found, GroupKey(parts), parts.event))

\* a comparison of the number of events alone
EventsMismatchLengthOnly(events) ==
    Len(ALL_SUBSCRIBED_EVENTS) # Len(events)

\* a comparison that only asks for every required event to be present
EventsMismatchInclusionOnly(events) ==
    ~(\A i \in 1..Len(ALL_SUBSCRIBED_EVENTS) : Includes(events, ALL_SUBSCRIBED_EVENTS[i]))

\* the condition under which a pool's events are reported as drift
EventsMismatch(events) ==
    \/ Len(ALL_SUBSCRIBED_EVENTS) # Len(events)
    \/ ~(\A i \in 1..Len(ALL_SUBSCRIBED_EVENTS) : Includes(events, ALL_SUBSCRIBED_EVENTS[i]))

\* the value migrationCheck returns once the subscriptions are listed
CheckSubscriptions(all, streamId) ==
    LET subscriptions == FilterByStream(all, streamId)
        scan == CollectEvents(subscriptions, <<>>)
    IN IF Len(subscriptions) = 0 THEN FALSE
       ELSE IF scan.nonParseable THEN TRUE
       ELSE \E i \in 1..Len(scan.foundEvents) :
                EventsMismatch(scan.foundEvents[i].events)

-----------------------------------------------------------------------------
(* The event-stream directory (EventStreamService) *)

NextStreamId(list) ==
    1 + (IF list = {} THEN 0 ELSE CHOOSE n \in {s.id : s \in list} :
                                      \A s \in list : s.id <= n)

\* createOrUpdateStream(name, name): the stream of that name, created if absent
CreateOrUpdateStream(list, name) ==
    IF HasStream(list, name)
    THEN [streams |-> list, result |-> FindByName(list, name)]
    ELSE LET created == [id |-> NextStreamId(list), name |-> name]
         IN [streams |-> list \cup {created}, result |-> created]

\* getOrCreateSubscription: reuse the subscription of that name on the stream,
\* create it otherwise
GetOrCreateSubscription(all, streamId, name, fromBlock) ==
    IF \E i \in 1..Len(all) : all[i].name = name /\ all[i].stream = streamId
    THEN all
    ELSE Append(all, [name |-> name, stream |-> streamId, fromBlock |-> fromBlock])

-----------------------------------------------------------------------------
(* Tasks: the operations in flight, each standing at one of its await points *)

NoDto == [poolLocator |-> UndefLocator, poolData |-> Undef]

IdleLoc ==
    [dto |-> NoDto,            \* the argument of activatePool
     entry |-> NoStream,       \* this.stream when the operation was entered
     existing |-> NoStream,    \* migrationCheck: existingStream
     result |-> "none",        \* migrationCheck: the value returned
     name |-> <<>>,            \* getStream: the name passed to createOrUpdateStream
     ret |-> NoStream,         \* getStream: the stream returned to the caller
     pending |-> {},           \* subscription calls issued and not yet completed
     failed |-> FALSE,         \* some call of the operation failed
     rejected |-> {},          \* the subscription calls that failed
     calls |-> <<>>]           \* the directory calls issued by the operation

BoolStr(b) == IF b THEN "true" ELSE "false"

NoEvent ==
    [signature |-> "", blockNumber |-> Undef, transactionIndex |-> "0",
     logIndex |-> Undef, from |-> Undef, to |-> Undef, ids |-> <<>>]

IdleFrame ==
    [subName |-> <<>>,         \* onEvent: the subscription the event came under
     event |-> NoEvent,        \* onEvent: the event
     index |-> 0,              \* transformTransferBatchEvent: i
     messages |-> <<>>,        \* transformTransferBatchEvent: messages
     query |-> 0,              \* the position in queries of the query awaited
     seen |-> Undef,           \* isCustomUriSupported: the flag read on entry
     result |-> Undef,         \* isCustomUriSupported: the value returned
     method |-> Undef,         \* sendTransaction: the contract method posted
     asked |-> 0,              \* the length of the query log on entry
     flagOnEntry |-> Undef]    \* supportsCustomUri on entry

\* the position reached when migrationCheck returns
AfterCheck(o) == IF o = "migrationCheck" THEN "done" ELSE "checked"

Begin(t, o, dto, position, issued) ==
    /\ pc[t] = "idle"
    /\ opsLeft > 0
    /\ opsLeft' = opsLeft - 1
    /\ op' = [op EXCEPT ![t] = o]
    /\ pc' = [pc EXCEPT ![t] = position]
    /\ loc' = [loc EXCEPT ![t] = [IdleLoc EXCEPT !.dto = dto,
                                                 !.entry = stream,
                                                 !.ret = IF position = "gotStream"
                                                         THEN stream ELSE NoStream,
                                                 !.calls = issued]]
    /\ UNCHANGED <<streams, subs, stream, proxyTopic, uriPattern, history>>
    /\ UNCHANGED <<supportsCustomUri, queries, sink, frame>>

\* getStream up to its first await: the cached stream is returned at once,
\* otherwise migrationCheck is entered and lists the streams
EnterGetStream(t, o, dto) ==
    IF stream # NoStream
    THEN Begin(t, o, dto, "gotStream", <<>>)
    ELSE Begin(t, o, dto, "getStreams", <<"getStreams">>)

StartOnConnect(t) == EnterGetStream(t, "onConnect", NoDto)

StartInit(t) == EnterGetStream(t, "init", NoDto)

ActivateInputs ==
    {[poolLocator |-> packPoolLocator("F1", "5"), poolData |-> "ns1"]}

StartActivatePool(t) == \E dto \in ActivateInputs : EnterGetStream(t, "activatePool", dto)

StartMigrationCheck(t) == Begin(t, "migrationCheck", NoDto, "getStreams", <<"getStreams">>)

\* a check that creates the stream it does not find
MCGetStreamsReturnCreating(t) ==
    /\ pc[t] = "getStreams"
    /\ LET existingStream == FindStream(streams)
           r == CreateOrUpdateStream(streams, canonicalName)
       IN IF existingStream = NoStream
          THEN /\ pc' = [pc EXCEPT ![t] = AfterCheck(op[t])]
               /\ loc' = [loc EXCEPT ![t].result = "false"]
               /\ streams' = r.streams
               /\ UNCHANGED stream
          ELSE /\ stream' = existingStream
               /\ pc' = [pc EXCEPT ![t] = "getSubscriptions"]
               /\ loc' = [loc EXCEPT ![t].existing = existingStream,
                                     ![t].calls = Append(@, "getSubscriptions")]
               /\ UNCHANGED streams
    /\ UNCHANGED <<subs, proxyTopic, uriPattern, history, op, opsLeft>>
    /\ UNCHANGED <<supportsCustomUri, queries, sink, frame>>

\* migrationCheck from the answer of getStreams to its next await or return
MCGetStreamsReturn(t) ==
    /\ pc[t] = "getStreams"
    /\ LET existingStream == FindStream(streams)
       IN IF existingStream = NoStream
          THEN /\ pc' = [pc EXCEPT ![t] = AfterCheck(op[t])]
               /\ loc' = [loc EXCEPT ![t].result = "false"]
               /\ UNCHANGED stream
          ELSE /\ stream' = existingStream
               /\ pc' = [pc EXCEPT ![t] = "getSubscriptions"]
               /\ loc' = [loc EXCEPT ![t].existing = existingStream,
                                     ![t].calls = Append(@, "getSubscriptions")]
    /\ UNCHANGED <<streams, subs, proxyTopic, uriPattern, history, op, opsLeft>>
    /\ UNCHANGED <<supportsCustomUri, queries, sink, frame>>

\* migrationCheck from the answer of getSubscriptions to its return
MCGetSubscriptionsReturn(t) ==
    /\ pc[t] = "getSubscriptions"
    /\ pc' = [pc EXCEPT ![t] = AfterCheck(op[t])]
    /\ loc' = [loc EXCEPT ![t].result = BoolStr(CheckSubscriptions(subs, loc[t].existing.id))]
    /\ UNCHANGED <<streams, subs, stream, proxyTopic, uriPattern, history, op, opsLeft>>
    /\ UNCHANGED <<supportsCustomUri, queries, sink, frame>>

\* a name that ignores the stream the check adopted
StreamNameAlwaysCanonical(cached) == canonicalName

\* this.stream?.name ?? packStreamName(this.topic, this.instancePath)
StreamNameToCreate(cached) ==
    IF cached # NoStream THEN cached.name ELSE canonicalName

\* getStream after the check: the create-or-update call is issued
GSCreateStream(t) ==
    /\ pc[t] = "checked"
    /\ pc' = [pc EXCEPT ![t] = "createStream"]
    /\ loc' = [loc EXCEPT ![t].name = StreamNameToCreate(stream),
                          ![t].calls = Append(@, "createOrUpdateStream")]
    /\ UNCHANGED <<streams, subs, stream, proxyTopic, uriPattern, history, op, opsLeft>>
    /\ UNCHANGED <<supportsCustomUri, queries, sink, frame>>

\* getStream: createOrUpdateStream answers, the handle is cached and returned
GSCreateStreamReturn(t) ==
    /\ pc[t] = "createStream"
    /\ LET r == CreateOrUpdateStream(streams, loc[t].name)
       IN /\ streams' = r.streams
          /\ stream' = r.result
          /\ loc' = [loc EXCEPT ![t].ret = r.result]
    /\ pc' = [pc EXCEPT ![t] = "gotStream"]
    /\ UNCHANGED <<subs, proxyTopic, uriPattern, history, op, opsLeft>>
    /\ UNCHANGED <<supportsCustomUri, queries, sink, frame>>

\* onConnect after getStream: proxy.configure(wsUrl, stream.name)
OnConnectConfigure(t) ==
    /\ pc[t] = "gotStream" /\ op[t] = "onConnect"
    /\ proxyTopic' = loc[t].ret.name
    /\ UNCHANGED <<history, uriPattern>>
    /\ pc' = [pc EXCEPT ![t] = "done"]
    /\ UNCHANGED <<streams, subs, stream, op, loc, opsLeft>>
    /\ UNCHANGED <<supportsCustomUri, queries, sink, frame>>

SubscriptionCall(event, name, fromBlock) ==
    [event |-> event, name |-> name, fromBlock |-> fromBlock]

\* init after getStream: the base subscription is asked for from block 0
InitCalls ==
    {SubscriptionCall(tokenCreateEvent, baseSubscription, "0")}

InitSubscribe(t) ==
    /\ pc[t] = "gotStream" /\ op[t] = "init"
    /\ pc' = [pc EXCEPT ![t] = "subscribe"]
    /\ loc' = [loc EXCEPT ![t].pending = InitCalls,
                          ![t].calls = Append(@, "getOrCreateSubscription")]
    /\ UNCHANGED <<streams, subs, stream, proxyTopic, uriPattern, history, op, opsLeft>>
    /\ UNCHANGED <<supportsCustomUri, queries, sink, frame>>

\* poolLocator.blockNumber ?? '0'
FromBlock(poolLocator) ==
    IF unpackPoolLocator(poolLocator).blockNumber # Undef
    THEN unpackPoolLocator(poolLocator).blockNumber
    ELSE "0"

\* an activation that seeds the approval subscription like the other three
ActivateCallsSeededAlike(dto) ==
    {SubscriptionCall(event,
        packSubscriptionName(instancePath, dto.poolLocator, event, dto.poolData),
        FromBlock(dto.poolLocator)) :
        event \in {tokenCreateEvent, transferSingleEvent, transferBatchEvent,
                   approvalForAllEvent}}

\* an activation that leaves the approval subscription out
ActivateCallsWithoutApproval(dto) ==
    {SubscriptionCall(event,
        packSubscriptionName(instancePath, dto.poolLocator, event, dto.poolData),
        FromBlock(dto.poolLocator)) :
        event \in {tokenCreateEvent, transferSingleEvent, transferBatchEvent}}

\* activatePool: the four calls handed to Promise.all
ActivateCalls(dto) ==
    {SubscriptionCall(tokenCreateEvent,
        packSubscriptionName(instancePath, dto.poolLocator, tokenCreateEvent, dto.poolData),
        FromBlock(dto.poolLocator)),
     SubscriptionCall(transferSingleEvent,
        packSubscriptionName(instancePath, dto.poolLocator, transferSingleEvent, dto.poolData),
        FromBlock(dto.poolLocator)),
     SubscriptionCall(transferBatchEvent,
        packSubscriptionName(instancePath, dto.poolLocator, transferBatchEvent, dto.poolData),
        FromBlock(dto.poolLocator)),
     SubscriptionCall(approvalForAllEvent,
        packSubscriptionName(instancePath, dto.poolLocator, approvalForAllEvent, dto.poolData),
        "0")}

ActivateSubscribe(t) ==
    /\ pc[t] = "gotStream" /\ op[t] = "activatePool"
    /\ pc' = [pc EXCEPT ![t] = "subscribe"]
    /\ loc' = [loc EXCEPT ![t].pending = ActivateCalls(loc[t].dto),
                          ![t].calls = Append(@, "getOrCreateSubscription")]
    /\ UNCHANGED <<streams, subs, stream, proxyTopic, uriPattern, history, op, opsLeft>>
    /\ UNCHANGED <<supportsCustomUri, queries, sink, frame>>

\* await Promise.all([...]): rejected as soon as one call has failed, fulfilled
\* once every call has succeeded
Settled(pending, failed) ==
    IF failed THEN "failed" ELSE IF pending # {} THEN "subscribe" ELSE "done"

\* a call that creates its subscription whether or not the name is there
SubscribeReturnAlwaysCreating(t) ==
    /\ pc[t] \in {"subscribe", "failed"}
    /\ \E c \in loc[t].pending :
         /\ subs' = Append(subs, [name |-> c.name, stream |-> loc[t].ret.id,
                                  fromBlock |-> c.fromBlock])
         /\ loc' = [loc EXCEPT ![t].pending = @ \ {c}]
         /\ pc' = [pc EXCEPT ![t] = Settled(loc[t].pending \ {c}, loc[t].failed)]
    /\ UNCHANGED <<streams, stream, proxyTopic, uriPattern, history, op, opsLeft>>
    /\ UNCHANGED <<supportsCustomUri, queries, sink, frame>>

\* one subscription call completes; a call still in flight when the operation
\* has failed completes all the same
SubscribeReturn(t) ==
    /\ pc[t] \in {"subscribe", "failed"}
    /\ \E c \in loc[t].pending :
         /\ subs' = GetOrCreateSubscription(subs, loc[t].ret.id, c.name, c.fromBlock)
         /\ loc' = [loc EXCEPT ![t].pending = @ \ {c}]
         /\ pc' = [pc EXCEPT ![t] = Settled(loc[t].pending \ {c}, loc[t].failed)]
    /\ UNCHANGED <<streams, stream, proxyTopic, uriPattern, history, op, opsLeft>>
    /\ UNCHANGED <<supportsCustomUri, queries, sink, frame>>

\* a rejection that abandons the calls still in flight
SubscribeFailsCancelling(t) ==
    /\ pc[t] \in {"subscribe", "failed"}
    /\ \E c \in loc[t].pending :
         /\ loc' = [loc EXCEPT ![t].pending = {}, ![t].failed = TRUE,
                               ![t].rejected = @ \cup {c}]
         /\ pc' = [pc EXCEPT ![t] = Settled({}, TRUE)]
    /\ UNCHANGED <<streams, subs, stream, proxyTopic, uriPattern, history, op, opsLeft>>
    /\ UNCHANGED <<supportsCustomUri, queries, sink, frame>>

\* a rejection that deletes what the operation has created so far
SubscribeFailsRollingBack(t) ==
    /\ pc[t] \in {"subscribe", "failed"}
    /\ \E c \in loc[t].pending :
         /\ loc' = [loc EXCEPT ![t].pending = @ \ {c}, ![t].failed = TRUE,
                               ![t].rejected = @ \cup {c}]
         /\ pc' = [pc EXCEPT ![t] = Settled(loc[t].pending \ {c}, TRUE)]
         /\ subs' = SelectSeq(subs, LAMBDA x :
                       x.name \notin {k.name : k \in ActivateCalls(loc[t].dto)})
    /\ UNCHANGED <<streams, stream, proxyTopic, uriPattern, history, op, opsLeft>>
    /\ UNCHANGED <<supportsCustomUri, queries, sink, frame>>

\* one subscription call fails: the operation fails, its siblings still run
SubscribeFails(t) ==
    /\ pc[t] \in {"subscribe", "failed"}
    /\ \E c \in loc[t].pending :
         /\ loc' = [loc EXCEPT ![t].pending = @ \ {c}, ![t].failed = TRUE,
                               ![t].rejected = @ \cup {c}]
         /\ pc' = [pc EXCEPT ![t] = Settled(loc[t].pending \ {c}, TRUE)]
    /\ UNCHANGED <<streams, subs, stream, proxyTopic, uriPattern, history, op, opsLeft>>
    /\ UNCHANGED <<supportsCustomUri, queries, sink, frame>>

\* a directory call of migrationCheck or getStream fails: the failure
\* propagates to the caller of the operation
CallFails(t) ==
    /\ pc[t] \in {"getStreams", "getSubscriptions", "createStream"}
    /\ pc' = [pc EXCEPT ![t] = "failed"]
    /\ loc' = [loc EXCEPT ![t].failed = TRUE]
    /\ UNCHANGED <<streams, subs, stream, proxyTopic, uriPattern, history, op, opsLeft>>
    /\ UNCHANGED <<supportsCustomUri, queries, sink, frame>>

\* the operation has returned; the task is free for the next one
Finish(t) ==
    /\ pc[t] \in {"done", "failed"}
    /\ loc[t].pending = {}
    /\ pc' = [pc EXCEPT ![t] = "idle"]
    /\ op' = [op EXCEPT ![t] = "none"]
    /\ loc' = [loc EXCEPT ![t] = IdleLoc]
    /\ frame' = [frame EXCEPT ![t] = IdleFrame]
    /\ UNCHANGED <<streams, subs, stream, proxyTopic, uriPattern, history, opsLeft>>
    /\ UNCHANGED <<supportsCustomUri, queries, sink>>

\* what an operation that has returned leaves in the record
Returned(t) ==
    [op |-> op[t], dto |-> loc[t].dto, outcome |-> pc[t], result |-> loc[t].result,
     subName |-> frame[t].subName, event |-> frame[t].event,
     sunk |-> Len(sink), asked |-> Len(queries)]

\* the operation has returned and its outcome is recorded
FinishRecorded(t) ==
    /\ pc[t] \in {"done", "failed"}
    /\ loc[t].pending = {}
    /\ pc' = [pc EXCEPT ![t] = "idle"]
    /\ op' = [op EXCEPT ![t] = "none"]
    /\ loc' = [loc EXCEPT ![t] = IdleLoc]
    /\ frame' = [frame EXCEPT ![t] = IdleFrame]
    /\ history' = Append(history, Returned(t))
    /\ UNCHANGED <<streams, subs, stream, proxyTopic, uriPattern, opsLeft>>
    /\ UNCHANGED <<supportsCustomUri, queries, sink>>

-----------------------------------------------------------------------------
(* The event listener (TokenListener): the synchronous parts *)

ZERO_ADDRESS == "0x0000000000000000000000000000000000000000"
tokenCreateEventSignatureOld == "TokenCreate(address,uint256,bytes)"
tokenCreateEventSignature == "TokenPoolCreation(address,uint256,bytes)"
transferSingleEventSignature == "TransferSingle(address,address,address,uint256,uint256)"
transferBatchEventSignature == "TransferBatch(address,address,address,uint256[],uint256[])"
approvalForAllEventSignature == "ApprovalForAll(address,address,bool)"

\* String.indexOf for a single character: the 0-based position, -1 when absent
IndexOf(s, ch) ==
    IF \E i \in 1..Len(s) : SubSeq(s, i, i) = ch
    THEN (CHOOSE i \in 1..Len(s) :
             /\ SubSeq(s, i, i) = ch
             /\ \A j \in 1..(i - 1) : SubSeq(s, j, j) # ch) - 1
    ELSE -1

\* a trim that also accepts a ':' in first position
trimEventSignatureAnyColon(signature) ==
    LET firstColon == IndexOf(signature, ":")
    IN IF firstColon >= 0
       THEN SubSeq(signature, firstColon + 2, Len(signature))
       ELSE signature

trimEventSignature(signature) ==
    LET firstColon == IndexOf(signature, ":")
    IN IF firstColon > 0
       THEN SubSeq(signature, firstColon + 2, Len(signature))
       ELSE signature

\* signature.substring(0, signature.indexOf('(')): nothing when there is no '('
stripParamsFromSignature(signature) ==
    IF IndexOf(signature, "(") > 0 THEN SubSeq(signature, 1, IndexOf(signature, "("))
    ELSE ""

\* the case of the switch in onEvent that the event falls in
EventKind(signature) ==
    LET trimmed == trimEventSignature(signature)
    IN IF trimmed \in {tokenCreateEventSignatureOld, tokenCreateEventSignature}
       THEN "create"
       ELSE IF trimmed = transferSingleEventSignature THEN "single"
       ELSE IF trimmed = approvalForAllEventSignature THEN "approval"
       ELSE IF trimmed = transferBatchEventSignature THEN "batch"
       ELSE "unknown"

\* String.padStart with a one-character filler
RECURSIVE padStart(_, _, _)
padStart(s, n, fill) == IF Len(s) >= n THEN s ELSE padStart(fill \o s, n, fill)

DigitValue(ch) == IndexOf("0123456789abcdef", ch)

RECURSIVE ParseDigits(_, _, _)
ParseDigits(s, base, acc) ==
    IF Len(s) = 0 THEN acc
    ELSE ParseDigits(SubSeq(s, 2, Len(s)), base, acc * base + DigitValue(SubSeq(s, 1, 1)))

\* BigInt(string): a decimal literal, or a hexadecimal one after 0x
BigInt(s) ==
    IF Len(s) > 2 /\ SubSeq(s, 1, 2) = "0x"
    THEN ParseDigits(SubSeq(s, 3, Len(s)), 16, 0)
    ELSE ParseDigits(s, 10, 0)

\* an id whose log index is not padded
formatBlockchainEventIdBareLog(event) ==
    LET blockNumber == IF event.blockNumber # Undef THEN event.blockNumber ELSE "0"
        txIndex == ToString(BigInt(event.transactionIndex))
        logIndex == IF event.logIndex # Undef THEN event.logIndex ELSE "0"
    IN padStart(blockNumber, 12, "0") \o "/" \o padStart(txIndex, 6, "0")
          \o "/" \o logIndex

formatBlockchainEventId(event) ==
    LET blockNumber == IF event.blockNumber # Undef THEN event.blockNumber ELSE "0"
        txIndex == ToString(BigInt(event.transactionIndex))
        logIndex == IF event.logIndex # Undef THEN event.logIndex ELSE "0"
    IN padStart(blockNumber, 12, "0") \o "/" \o padStart(txIndex, 6, "0")
          \o "/" \o padStart(logIndex, 6, "0")

NoIndex == -1        \* eventIndex === undefined

\* eventIndex === undefined ? eventId : eventId + '/' + eventIndex padded to 6
TransferId(eventId, eventIndex) ==
    IF eventIndex = NoIndex THEN eventId
    ELSE eventId \o "/" \o padStart(ToString(eventIndex), 6, "0")

\* Token identifiers (tokens.util): the wire value carries the fungibility
\* flag, the pool and, for a non-fungible token, the index in the pool.
ValidTokenId(id) ==
    \/ Len(id) = 2 /\ id[1] = "F"
    \/ Len(id) = 3 /\ id[1] = "N"

\* unpackTokenId of a valid identifier (it throws on any other)
unpackTokenId(id) ==
    [isFungible |-> id[1] = "F",
     poolId |-> id[1] \o id[2],
     tokenIndex |-> IF id[1] = "F" THEN Undef ELSE id[3]]

\* encodeHexIDForURI: the identifier as it stands in a metadata URI
encodeHexIDForURI(id) ==
    IF Len(id) = 3 THEN id[1] \o id[2] \o "." \o id[3] ELSE id[1] \o id[2]

NoMessage ==
    [event |-> Undef, id |-> Undef, poolLocator |-> UndefLocator, poolData |-> Undef,
     tokenIndex |-> Undef, uri |-> <<Undef>>, from |-> Undef, to |-> Undef,
     type |-> Undef, baseUri |-> Undef, blockNumber |-> Undef,
     transactionIndex |-> Undef, logIndex |-> Undef,
     name |-> Undef, signature |-> Undef]

\* the subscription name yields a pool locator
HasLocator(subName) == unpackSubscriptionName(subName).poolLocator # UndefLocator

SubscribedPool(subName) ==
    unpackPoolLocator(unpackSubscriptionName(subName).poolLocator).poolId

\* an acceptance that does not compare the pools
CreationAcceptedAnyPool(subName, typeId) == HasLocator(subName)

\* an acceptance that lets a name without a locator through
CreationAcceptedWithoutLocator(subName, typeId) ==
    \/ ~HasLocator(subName)
    \/ SubscribedPool(subName) = BASE_SUBSCRIPTION_NAME
    \/ SubscribedPool(subName) = unpackTokenId(typeId).poolId

\* transformTokenPoolCreationEvent: the event is for the subscribed pool
CreationAccepted(subName, typeId) ==
    /\ HasLocator(subName)
    /\ \/ SubscribedPool(subName) = BASE_SUBSCRIPTION_NAME
       \/ SubscribedPool(subName) = unpackTokenId(typeId).poolId

\* a token-pool message that keeps the locator of a pool subscription
PoolMessageOfSubscription(subName, event, baseUri) ==
    LET unpackedId == unpackTokenId(event.ids[1])
    IN [NoMessage EXCEPT
          !.event = "token-pool",
          !.id = formatBlockchainEventId(event),
          !.poolLocator = IF SubscribedPool(subName) = BASE_SUBSCRIPTION_NAME
                          THEN packPoolLocator(unpackedId.poolId, event.blockNumber)
                          ELSE unpackSubscriptionName(subName).poolLocator,
          !.type = IF unpackedId.isFungible THEN "fungible" ELSE "nonfungible",
          !.baseUri = baseUri,
          !.blockNumber = event.blockNumber,
          !.transactionIndex = event.transactionIndex,
          !.logIndex = event.logIndex,
          !.name = stripParamsFromSignature(trimEventSignature(event.signature)),
          !.signature = trimEventSignature(event.signature)]

\* the token-pool message; baseUri is Undef when the contract has no custom URI
PoolMessage(subName, event, baseUri) ==
    LET unpackedId == unpackTokenId(event.ids[1])
    IN [NoMessage EXCEPT
          !.event = "token-pool",
          !.id = formatBlockchainEventId(event),
          !.poolLocator = packPoolLocator(unpackedId.poolId, event.blockNumber),
          !.type = IF unpackedId.isFungible THEN "fungible" ELSE "nonfungible",
          !.baseUri = baseUri,
          !.blockNumber = event.blockNumber,
          !.transactionIndex = event.transactionIndex,
          !.logIndex = event.logIndex,
          !.name = stripParamsFromSignature(trimEventSignature(event.signature)),
          !.signature = trimEventSignature(event.signature)]

\* a filter that lets the transfers of every pool through
TransferAcceptedAnyPool(subName, event, id) ==
    /\ HasLocator(subName)
    /\ ~(event.from = ZERO_ADDRESS /\ event.to = ZERO_ADDRESS)

\* transformTransferSingleEvent: the checks that precede the URI lookup
TransferAccepted(subName, event, id) ==
    /\ HasLocator(subName)
    /\ SubscribedPool(subName) = unpackTokenId(id).poolId
    /\ ~(event.from = ZERO_ADDRESS /\ event.to = ZERO_ADDRESS)

\* a classification that looks at the sender only
TransferKindBySender(from, to) ==
    IF from = ZERO_ADDRESS THEN "token-mint" ELSE "token-transfer"

\* the message kind chosen from the two addresses
TransferKind(from, to) ==
    IF from = ZERO_ADDRESS THEN "token-mint"
    ELSE IF to = ZERO_ADDRESS THEN "token-burn"
    ELSE "token-transfer"

\* a transfer message that repeats the signature as it was delivered
TransferMessageRawSignature(subName, event, id, eventIndex, uri) ==
    LET unpackedSub == unpackSubscriptionName(subName)
        kind == TransferKind(event.from, event.to)
    IN [NoMessage EXCEPT
          !.event = kind,
          !.id = TransferId(formatBlockchainEventId(event), eventIndex),
          !.poolData = unpackedSub.poolData,
          !.poolLocator = unpackedSub.poolLocator,
          !.tokenIndex = unpackTokenId(id).tokenIndex,
          !.uri = uri,
          !.from = IF kind = "token-mint" THEN Undef ELSE event.from,
          !.to = IF kind = "token-burn" THEN Undef ELSE event.to,
          !.blockNumber = event.blockNumber,
          !.transactionIndex = event.transactionIndex,
          !.logIndex = event.logIndex,
          !.name = stripParamsFromSignature(event.signature),
          !.signature = event.signature]

\* the message of an accepted transfer; uri is <<Undef>> for a fungible token
TransferMessage(subName, event, id, eventIndex, uri) ==
    LET unpackedSub == unpackSubscriptionName(subName)
        kind == TransferKind(event.from, event.to)
    IN [NoMessage EXCEPT
          !.event = kind,
          !.id = TransferId(formatBlockchainEventId(event), eventIndex),
          !.poolData = unpackedSub.poolData,
          !.poolLocator = unpackedSub.poolLocator,
          !.tokenIndex = unpackTokenId(id).tokenIndex,
          !.uri = uri,
          !.from = IF kind = "token-mint" THEN Undef ELSE event.from,
          !.to = IF kind = "token-burn" THEN Undef ELSE event.to,
          !.blockNumber = event.blockNumber,
          !.transactionIndex = event.transactionIndex,
          !.logIndex = event.logIndex,
          !.name = stripParamsFromSignature(trimEventSignature(event.signature)),
          !.signature = trimEventSignature(event.signature)]

\* an approval identified by the provenance id alone
ApprovalMessageOfEvent(subName, event) ==
    LET unpackedSub == unpackSubscriptionName(subName)
    IN IF ~HasLocator(subName) THEN NoMessage
       ELSE [NoMessage EXCEPT
               !.event = "token-approval",
               !.id = formatBlockchainEventId(event),
               !.poolData = unpackedSub.poolData,
               !.poolLocator = unpackedSub.poolLocator,
               !.blockNumber = event.blockNumber,
               !.transactionIndex = event.transactionIndex,
               !.logIndex = event.logIndex,
               !.name = stripParamsFromSignature(trimEventSignature(event.signature)),
               !.signature = trimEventSignature(event.signature)]

\* transformApprovalForAllEvent
ApprovalMessage(subName, event) ==
    LET unpackedSub == unpackSubscriptionName(subName)
    IN IF ~HasLocator(subName) THEN NoMessage
       ELSE [NoMessage EXCEPT
               !.event = "token-approval",
               !.id = formatBlockchainEventId(event) \o "/" \o SubscribedPool(subName),
               !.poolData = unpackedSub.poolData,
               !.poolLocator = unpackedSub.poolLocator,
               !.blockNumber = event.blockNumber,
               !.transactionIndex = event.transactionIndex,
               !.logIndex = event.logIndex,
               !.name = stripParamsFromSignature(trimEventSignature(event.signature)),
               !.signature = trimEventSignature(event.signature)]

\* getTokenUri: the first '{id}' of the answer is replaced by the identifier;
\* the answer is held by its parts around the placeholder
TokenUriOf(output, id) ==
    IF \E i \in 1..Len(output) : output[i] = "{id}"
    THEN LET k == CHOOSE i \in 1..Len(output) :
                     output[i] = "{id}" /\ \A j \in 1..(i - 1) : output[j] # "{id}"
         IN [i \in 1..Len(output) |-> IF i = k THEN encodeHexIDForURI(id) ELSE output[i]]
    ELSE output

-----------------------------------------------------------------------------
(* The event listener and the URI-support probe: steps between await points *)

Goto(t, position, fr) ==
    /\ pc' = [pc EXCEPT ![t] = position]
    /\ frame' = [frame EXCEPT ![t] = fr]

\* the operation returns, having handed the items to the event processor
HandToSink(t, fr, q, items) ==
    /\ Goto(t, "done", fr)
    /\ sink' = sink \o items
    /\ queries' = q

\* service.query(method): the call is issued and awaited at the position
IssueQuery(t, fr, q, method, position) ==
    /\ Goto(t, position, [fr EXCEPT !.query = Len(q) + 1])
    /\ queries' = Append(q, [method |-> method, answer |-> "pending"])
    /\ UNCHANGED sink

\* an exception leaves the operation
Throw(t, fr, q) ==
    /\ Goto(t, "failed", fr)
    /\ queries' = q
    /\ UNCHANGED sink

\* the query log once the awaited query of the task has been answered
Answered(t, answer) == [queries EXCEPT ![frame[t].query].answer = answer]

\* a creation that asks for the base URI whatever the flag
CreationWithFlagAskingAlways(t, fr, q, flag) ==
    IssueQuery(t, fr, q, "baseTokenUri", "baseUri")

\* transformTokenPoolCreationEvent once isCustomUriSupported() has returned
CreationWithFlag(t, fr, q, flag) ==
    IF flag = "true"
    THEN IssueQuery(t, fr, q, "baseTokenUri", "baseUri")
    ELSE HandToSink(t, fr, q, <<PoolMessage(fr.subName, fr.event, Undef)>>)

\* sendTransaction: the transaction is posted and the reply awaited
Send(t, fr, q, method) ==
    /\ Goto(t, "send", [fr EXCEPT !.method = method])
    /\ queries' = q
    /\ UNCHANGED sink

\* the caller of isCustomUriSupported goes on with the flag it was returned
ProbeContinues(t, o, fr, q, flag) ==
    IF o = "onEvent" THEN CreationWithFlag(t, fr, q, flag)
    ELSE IF o = "mint"
    THEN Send(t, fr, q, IF flag = "true" THEN "mintNonFungibleWithURI"
                        ELSE "mintNonFungible")
    ELSE HandToSink(t, fr, q, <<>>)

\* a probe that asks the contract on every call
ProbeEntryAlwaysAsking(t, o, fr, q) ==
    /\ IssueQuery(t, [fr EXCEPT !.seen = supportsCustomUri], q, "supportsInterface", "probe")
    /\ UNCHANGED supportsCustomUri

\* isCustomUriSupported up to its await: the cached flag is returned at once,
\* otherwise the capability query is issued
ProbeEntry(t, o, fr, q) ==
    /\ IF supportsCustomUri = Undef
       THEN IssueQuery(t, [fr EXCEPT !.seen = Undef], q, "supportsInterface", "probe")
       ELSE LET known == [fr EXCEPT !.seen = supportsCustomUri,
                                    !.result = supportsCustomUri]
            IN ProbeContinues(t, o, known, q, supportsCustomUri)
    /\ UNCHANGED supportsCustomUri

\* the entry of an operation of the listener or of the probe
BeginCall(t, o) ==
    /\ pc[t] = "idle"
    /\ opsLeft > 0
    /\ opsLeft' = opsLeft - 1
    /\ op' = [op EXCEPT ![t] = o]
    /\ UNCHANGED <<streams, subs, stream, proxyTopic, uriPattern, history, loc>>

StartProbe(t) ==
    /\ BeginCall(t, "isCustomUriSupported")
    /\ ProbeEntry(t, "isCustomUriSupported", IdleFrame, queries)

\* a probe that lets a failed query be asked again
ProbeSettlesForgettingFailure(t, answer) ==
    /\ pc[t] = "probe"
    /\ LET flag == IF answer = "failed" THEN Undef ELSE BoolStr(answer = "true")
           result == IF answer = "failed" THEN "false" ELSE BoolStr(answer = "true")
           fr == [frame[t] EXCEPT !.result = result]
       IN /\ supportsCustomUri' = flag
          /\ ProbeContinues(t, op[t], fr, Answered(t, answer), result)
    /\ UNCHANGED <<streams, subs, stream, proxyTopic, uriPattern, history, op, loc, opsLeft>>

\* the capability query settles: the flag is result.output === true, and false
\* when the query failed; the caller goes on with the flag
ProbeSettles(t, answer) ==
    /\ pc[t] = "probe"
    /\ LET flag == IF answer = "failed" THEN "false" ELSE BoolStr(answer = "true")
           fr == [frame[t] EXCEPT !.result = flag]
       IN /\ supportsCustomUri' = flag
          /\ ProbeContinues(t, op[t], fr, Answered(t, answer), flag)
    /\ UNCHANGED <<streams, subs, stream, proxyTopic, uriPattern, history, op, loc, opsLeft>>

\* what the capability answers: a boolean, another value, or a failure
ProbeAnswers == {"true", "false", "0x01", "failed"}

ProbeReturn(t) == \E answer \in ProbeAnswers : ProbeSettles(t, answer)

\* queryBaseUri settles: the answer, or '' when the query failed
BaseUriAnswers == {"https://base/", "failed"}

BaseUriReturn(t) ==
    /\ pc[t] = "baseUri"
    /\ \E answer \in BaseUriAnswers :
         HandToSink(t, frame[t], Answered(t, answer),
                    <<PoolMessage(frame[t].subName, frame[t].event,
                                  IF answer = "failed" THEN "" ELSE answer)>>)
    /\ UNCHANGED <<streams, subs, stream, proxyTopic, uriPattern, history, op, loc, opsLeft, supportsCustomUri>>

IsBatch(event) == EventKind(event.signature) = "batch"

\* the identifier and the index of the transfer being transformed
CurrentId(fr) == fr.event.ids[fr.index + 1]

\* an index that counts the messages collected so far
CurrentIndexOfSurvivors(fr) == IF IsBatch(fr.event) THEN Len(fr.messages) ELSE NoIndex

CurrentIndex(fr) == IF IsBatch(fr.event) THEN fr.index ELSE NoIndex

\* a batch that hands each message to the processor as soon as it is made
TransferReturnsHandingEach(t, fr, q, message) ==
    IF IsBatch(fr.event)
    THEN /\ Goto(t, "batch", [fr EXCEPT !.index = @ + 1])
         /\ queries' = q
         /\ sink' = IF message # NoMessage THEN Append(sink, message) ELSE sink
    ELSE HandToSink(t, fr, q, <<message>>)

\* transformTransferSingleEvent has returned: a batch collects the message and
\* moves to the next entry, a single transfer hands the result to the processor
TransferReturns(t, fr, q, message) ==
    IF IsBatch(fr.event)
    THEN /\ Goto(t, "batch", [fr EXCEPT !.index = @ + 1,
                                        !.messages = IF message # NoMessage
                                                     THEN Append(@, message) ELSE @])
         /\ queries' = q
         /\ UNCHANGED sink
    ELSE HandToSink(t, fr, q, <<message>>)

\* a transformation that asks for the URI of every accepted token
TransferEntryAskingAlways(t, fr, q) ==
    LET id == CurrentId(fr)
    IN IF ~ValidTokenId(id) THEN Throw(t, fr, q)
       ELSE IF ~TransferAccepted(fr.subName, fr.event, id)
       THEN TransferReturns(t, fr, q, NoMessage)
       ELSE IssueQuery(t, fr, q, "uri", "tokenUri")

\* transformTransferSingleEvent up to its await
TransferEntry(t, fr, q) ==
    LET id == CurrentId(fr)
    IN IF ~ValidTokenId(id) THEN Throw(t, fr, q)
       ELSE IF ~TransferAccepted(fr.subName, fr.event, id)
       THEN TransferReturns(t, fr, q, NoMessage)
       ELSE IF unpackTokenId(id).isFungible
       THEN TransferReturns(t, fr, q,
                TransferMessage(fr.subName, fr.event, id, CurrentIndex(fr), <<Undef>>))
       ELSE IssueQuery(t, fr, q, "uri", "tokenUri")

\* what the uri query answers: a URI, a URI pattern, or a failure
TokenUriAnswers == {<<"https://t/1">>, <<"https://t/", "{id}">>, <<"failed">>}

\* a lookup whose failure leaves the translation
TokenUriReturnPropagating(t) ==
    /\ pc[t] = "tokenUri"
    /\ \E answer \in TokenUriAnswers :
         IF answer = <<"failed">>
         THEN Throw(t, frame[t], Answered(t, answer[1]))
         ELSE TransferReturns(t, frame[t], Answered(t, answer[1]),
                  TransferMessage(frame[t].subName, frame[t].event, CurrentId(frame[t]),
                                  CurrentIndex(frame[t]),
                                  TokenUriOf(answer, CurrentId(frame[t]))))
    /\ UNCHANGED <<streams, subs, stream, proxyTopic, uriPattern, history, op, loc, opsLeft, supportsCustomUri>>

\* getTokenUri settles: the URI, or '' when the query failed
TokenUriReturn(t) ==
    /\ pc[t] = "tokenUri"
    /\ \E answer \in TokenUriAnswers :
         LET uri == IF answer = <<"failed">> THEN <<>>
                    ELSE TokenUriOf(answer, CurrentId(frame[t]))
         IN TransferReturns(t, frame[t], Answered(t, answer[1]),
                TransferMessage(frame[t].subName, frame[t].event, CurrentId(frame[t]),
                                CurrentIndex(frame[t]), uri))
    /\ UNCHANGED <<streams, subs, stream, proxyTopic, uriPattern, history, op, loc, opsLeft, supportsCustomUri>>

\* the loop of transformTransferBatchEvent: the next entry, or the end of the
\* loop, where onEvent hands the collected messages to the processor in order
BatchStep(t) ==
    /\ pc[t] = "batch"
    /\ IF frame[t].index < Len(frame[t].event.ids)
       THEN TransferEntry(t, frame[t], queries)
       ELSE HandToSink(t, frame[t], queries, frame[t].messages)
    /\ UNCHANGED <<streams, subs, stream, proxyTopic, uriPattern, history, op, loc, opsLeft, supportsCustomUri>>

\* a creation that records a discarded event as the absence of the capability
CreationEntryMarkingDiscard(t, fr) ==
    IF ~ValidTokenId(fr.event.ids[1])
    THEN Throw(t, fr, queries) /\ UNCHANGED supportsCustomUri
    ELSE IF ~CreationAccepted(fr.subName, fr.event.ids[1])
    THEN HandToSink(t, fr, queries, <<NoMessage>>) /\ supportsCustomUri' = "false"
    ELSE ProbeEntry(t, "onEvent", fr, queries)

\* transformTokenPoolCreationEvent up to its await
CreationEntry(t, fr) ==
    IF ~ValidTokenId(fr.event.ids[1])
    THEN Throw(t, fr, queries) /\ UNCHANGED supportsCustomUri
    ELSE IF ~CreationAccepted(fr.subName, fr.event.ids[1])
    THEN HandToSink(t, fr, queries, <<NoMessage>>) /\ UNCHANGED supportsCustomUri
    ELSE ProbeEntry(t, "onEvent", fr, queries)

\* onEvent up to its first await: the switch on the trimmed signature
OnEvent(t, subName, event) ==
    /\ BeginCall(t, "onEvent")
    /\ LET fr == [IdleFrame EXCEPT !.subName = subName, !.event = event,
                                   !.asked = Len(queries),
                                   !.flagOnEntry = supportsCustomUri]
           kind == EventKind(event.signature)
       IN IF kind = "create" THEN CreationEntry(t, fr)
          ELSE IF kind = "single"
          THEN TransferEntry(t, fr, queries) /\ UNCHANGED supportsCustomUri
          ELSE IF kind = "approval"
          THEN /\ HandToSink(t, fr, queries, <<ApprovalMessage(subName, event)>>)
               /\ UNCHANGED supportsCustomUri
          ELSE IF kind = "batch"
          THEN /\ Goto(t, "batch", fr)
               /\ UNCHANGED <<queries, sink, supportsCustomUri>>
          ELSE /\ HandToSink(t, fr, queries, <<>>)
               /\ UNCHANGED supportsCustomUri

\* balance up to its await: the balanceOf query is issued
StartBalance(t) ==
    /\ BeginCall(t, "balance")
    /\ IssueQuery(t, [IdleFrame EXCEPT !.asked = Len(queries),
                                       !.flagOnEntry = supportsCustomUri],
                  queries, "balanceOf", "balance")
    /\ UNCHANGED supportsCustomUri

\* what the balanceOf query answers: a balance, or a failure
BalanceAnswers == {"10", "failed"}

\* the balanceOf query settles: the balance is returned, a failure leaves balance
BalanceReturn(t) ==
    /\ pc[t] = "balance"
    /\ \E answer \in BalanceAnswers :
         IF answer = "failed"
         THEN Throw(t, frame[t], Answered(t, answer))
         ELSE HandToSink(t, [frame[t] EXCEPT !.result = answer], Answered(t, answer), <<>>)
    /\ UNCHANGED <<streams, subs, stream, proxyTopic, uriPattern, history, op, loc, opsLeft, supportsCustomUri>>

\* the operations that post one transaction, and the contract method of each
TransactionMethods ==
    [createPool |-> "create", approval |-> "setApprovalForAllWithData",
     transfer |-> "safeTransferFrom", burn |-> "burn"]

\* createPool, approval, transfer, burn up to the await of sendTransaction
StartTransaction(t) ==
    \E o \in DOMAIN TransactionMethods :
        /\ BeginCall(t, o)
        /\ Send(t, [IdleFrame EXCEPT !.asked = Len(queries),
                                     !.flagOnEntry = supportsCustomUri],
                queries, TransactionMethods[o])
        /\ UNCHANGED supportsCustomUri

\* what decides the path of mint: the kind of the pool, and whether a URI is given
MintInputs == [fungible : BOOLEAN, uri : BOOLEAN]

\* mint up to its first await: a non-fungible mint with a URI asks
\* isCustomUriSupported() for the method to post
StartMint(t) ==
    \E dto \in MintInputs :
        /\ BeginCall(t, "mint")
        /\ LET fr == [IdleFrame EXCEPT !.asked = Len(queries),
                                       !.flagOnEntry = supportsCustomUri]
           IN IF dto.fungible
              THEN Send(t, fr, queries, "mintFungible") /\ UNCHANGED supportsCustomUri
              ELSE IF dto.uri
              THEN ProbeEntry(t, "mint", fr, queries)
              ELSE Send(t, fr, queries, "mintNonFungible") /\ UNCHANGED supportsCustomUri

\* sendTransaction settles: the id of the reply is returned, a failure leaves
\* the operation
SendReturn(t) ==
    /\ pc[t] = "send"
    /\ \E accepted \in BOOLEAN :
         IF accepted
         THEN HandToSink(t, [frame[t] EXCEPT !.result = "id"], queries, <<>>)
         ELSE Throw(t, frame[t], queries)
    /\ UNCHANGED <<streams, subs, stream, proxyTopic, uriPattern, history, op, loc, opsLeft,
                   supportsCustomUri>>

-----------------------------------------------------------------------------
(* The operator of the directory, acting outside the connector *)

legacySubscription == <<<<topic>>, <<"F1">>, <<transferSingleEvent>>>>

\* an operator creates a stream under the canonical or the legacy name
ExternalCreateStream ==
    /\ \E name \in {canonicalName, legacyName} :
         /\ ~HasStream(streams, name)
         /\ streams' = streams \cup {[id |-> NextStreamId(streams), name |-> name]}
    /\ UNCHANGED <<subs, stream, proxyTopic, uriPattern, history, op, pc, loc, opsLeft>>
    /\ UNCHANGED <<supportsCustomUri, queries, sink, frame>>

-----------------------------------------------------------------------------
(* Specifications *)

InitTasks ==
    /\ stream = NoStream
    /\ proxyTopic = <<>>
    /\ op = [t \in Tasks |-> "none"]
    /\ pc = [t \in Tasks |-> "idle"]
    /\ loc = [t \in Tasks |-> IdleLoc]
    /\ supportsCustomUri = Undef
    /\ queries = <<>>
    /\ sink = <<>>
    /\ frame = [t \in Tasks |-> IdleFrame]
    /\ history = <<>>
    /\ uriPattern = NoPattern

otherName == <<"other-topic">>

InitialStreams ==
    {{},
     {[id |-> 1, name |-> canonicalName]},
     {[id |-> 1, name |-> legacyName]},
     {[id |-> 1, name |-> legacyName], [id |-> 2, name |-> canonicalName]},
     {[id |-> 1, name |-> otherName]},
     {[id |-> 1, name |-> otherName], [id |-> 2, name |-> legacyName]}}

ForeignSubscriptions ==
    {[name |-> n, stream |-> i, fromBlock |-> "0"] :
        n \in {legacySubscription,
               baseSubscription,
               packSubscriptionName(instancePath, packPoolLocator("F1", "5"),
                                    transferSingleEvent, "ns1")},
        i \in {1, 2}}

\* the sequences over S of length at most n
SeqsUpTo(S, n) == UNION {[1..k -> S] : k \in 0..n}

Init ==
    /\ streams \in InitialStreams
    /\ subs = <<>>
    /\ InitTasks
    /\ opsLeft = MaxOps

InitSeq ==
    /\ streams \in InitialStreams
    /\ subs \in SeqsUpTo(ForeignSubscriptions, MaxForeign)
    /\ InitTasks
    /\ opsLeft = MaxOps

Step(t) ==
    \/ MCGetStreamsReturn(t)
    \/ MCGetSubscriptionsReturn(t)
    \/ GSCreateStream(t)
    \/ GSCreateStreamReturn(t)
    \/ OnConnectConfigure(t)
    \/ InitSubscribe(t)
    \/ ActivateSubscribe(t)
    \/ SubscribeReturn(t)
    \/ CallFails(t)
    \/ Finish(t)

Start(t) ==
    \/ StartOnConnect(t)
    \/ StartInit(t)
    \/ StartActivatePool(t)
    \/ StartMigrationCheck(t)

\* operations interleave at their await points
Next ==
    \/ \E t \in Tasks : Start(t)
    \/ \E t \in Tasks : Step(t)
    \/ ExternalCreateStream

Spec == Init /\ [][Next]_vars

\* one operation at a time; the directory changes only between operations
NextSeq ==
    \/ Start("t1")
    \/ Step("t1")
    \/ pc["t1"] = "idle" /\ ExternalCreateStream

SpecSeq == InitSeq /\ [][NextSeq]_vars

\* migrationCheck alone, over every listing of up to MaxSubs subscriptions
CheckedSubscriptions ==
    {[name |-> n, stream |-> 1, fromBlock |-> "0"] :
        n \in {baseSubscription, legacySubscription,
               packSubscriptionName(instancePath, <<"N2">>, transferSingleEvent, "ns1"),
               packSubscriptionName(instancePath, <<"F1", "5">>, "TokenCreate", Undef)}
              \cup {packSubscriptionName(instancePath, <<"F1", "5">>,
                                         ALL_SUBSCRIBED_EVENTS[i], Undef) : i \in 1..4}}

InitMC ==
    /\ streams = {[id |-> 1, name |-> canonicalName]}
    /\ subs \in SeqsUpTo(CheckedSubscriptions, MaxSubs)
    /\ InitTasks
    /\ opsLeft = 1

NextMC ==
    \/ StartMigrationCheck("t1")
    \/ MCGetStreamsReturn("t1")
    \/ MCGetSubscriptionsReturn("t1")

SpecMC == InitMC /\ [][NextMC]_vars

-----------------------------------------------------------------------------
(* The listener, one operation at a time: the events delivered, the probe   *)
(* called on its own, and the activation of a pool announced by the sink    *)

Event(signature, blockNumber, from, to, ids) ==
    [signature |-> signature, blockNumber |-> blockNumber,
     transactionIndex |-> "0x1a", logIndex |-> "3",
     from |-> from, to |-> to, ids |-> ids]

TokenIds == {<<"F", "1">>, <<"N", "2", "7">>, <<"zz">>}

TransferEnds ==
    {<<ZERO_ADDRESS, "0xabc">>, <<"0xabc", ZERO_ADDRESS>>,
     <<"0xabc", "0xdef">>, <<ZERO_ADDRESS, ZERO_ADDRESS>>}

BatchEnds == {<<ZERO_ADDRESS, "0xabc">>, <<"0xabc", "0xdef">>, <<ZERO_ADDRESS, ZERO_ADDRESS>>}

CreationEvents ==
    {Event(sig, block, Undef, Undef, <<typeId>>) :
        sig \in {tokenCreateEventSignature, tokenCreateEventSignatureOld,
                 "0x5e:" \o tokenCreateEventSignature},
        block \in {"7", Undef},
        typeId \in {<<"F", "1">>, <<"N", "2", "0">>, <<"zz">>}}

SingleEvents ==
    {Event(transferSingleEventSignature, "7", ends[1], ends[2], <<id>>) :
        ends \in TransferEnds, id \in TokenIds}

BatchEvents ==
    {Event(transferBatchEventSignature, "7", ends[1], ends[2], ids) :
        ends \in BatchEnds, ids \in SeqsUpTo(TokenIds, MaxBatch)}

ApprovalEvents == {Event(approvalForAllEventSignature, "7", Undef, Undef, <<>>)}

UnknownEvents ==
    {Event(sig, "7", ZERO_ADDRESS, "0xabc", <<<<"F", "1">>>>) :
        sig \in {"Transfer(address,address,uint256)",
                 ":" \o transferSingleEventSignature,
                 "0x5e:0x5f:" \o transferSingleEventSignature}}

Events == CreationEvents \cup SingleEvents \cup BatchEvents \cup ApprovalEvents
              \cup UnknownEvents

\* the event name of the subscriptions that deliver the event
SubscribedEvent(event) ==
    LET kind == EventKind(event.signature)
    IN IF kind = "create" THEN tokenCreateEvent
       ELSE IF kind = "approval" THEN approvalForAllEvent
       ELSE IF kind = "batch" THEN transferBatchEvent
       ELSE transferSingleEvent

\* the subscriptions an event may be delivered under: the base subscription,
\* those of two pools, and one named in the legacy encoding
DeliveredUnder(event) ==
    {baseSubscription,
     packSubscriptionName(instancePath, <<"F1", "5">>, SubscribedEvent(event), "ns1"),
     packSubscriptionName(instancePath, <<"N2">>, SubscribedEvent(event), Undef),
     legacySubscription}

StartOnEvent(t) ==
    \E event \in Events : \E subName \in DeliveredUnder(event) : OnEvent(t, subName, event)

\* the pools announced to the sink so far
EmittedLocators ==
    {sink[i].poolLocator : i \in {k \in 1..Len(sink) : sink[k].event = "token-pool"}}

\* activatePool with the locator of an emitted token-pool event
StartActivateEmitted(t) ==
    \E locator \in EmittedLocators :
        EnterGetStream(t, "activatePool", [poolLocator |-> locator, poolData |-> "ns1"])

InitListen ==
    /\ streams = {}
    /\ subs = <<>>
    /\ InitTasks
    /\ opsLeft = MaxOps

NextListen ==
    \/ StartOnEvent("t1")
    \/ StartProbe("t1")
    \/ ProbeReturn("t1")
    \/ BaseUriReturn("t1")
    \/ BatchStep("t1")
    \/ TokenUriReturn("t1")
    \/ StartBalance("t1")
    \/ BalanceReturn("t1")
    \/ StartActivateEmitted("t1")
    \/ MCGetStreamsReturn("t1")
    \/ GSCreateStream("t1")
    \/ GSCreateStreamReturn("t1")
    \/ ActivateSubscribe("t1")
    \/ SubscribeReturn("t1")
    \/ Finish("t1")

SpecListen == InitListen /\ [][NextListen]_vars

\* the probe under concurrent callers: pool-creation events and direct calls
ProbingEvents ==
    {Event(tokenCreateEventSignature, "7", Undef, Undef, <<typeId>>) :
        typeId \in {<<"F", "1">>, <<"N", "2", "0">>}}

StartProbingEvent(t) ==
    \E event \in ProbingEvents : OnEvent(t, baseSubscription, event)

NextProbe ==
    \/ \E t \in Tasks : StartProbe(t)
    \/ \E t \in Tasks : StartProbingEvent(t)
    \/ \E t \in Tasks : ProbeReturn(t)
    \/ \E t \in Tasks : BaseUriReturn(t)
    \/ \E t \in Tasks : Finish(t)

SpecProbe == InitListen /\ [][NextProbe]_vars

\* pool activation with calls that may fail, one activation at a time
ActivationInputs ==
    {[poolLocator |-> packPoolLocator("F1", "5"), poolData |-> "ns1"],
     [poolLocator |-> packPoolLocator("N2", Undef), poolData |-> Undef]}

StartActivation(t) ==
    \E dto \in ActivationInputs : EnterGetStream(t, "activatePool", dto)

InitActivate ==
    /\ streams \in {{}, {[id |-> 1, name |-> legacyName]}}
    /\ subs = <<>>
    /\ InitTasks
    /\ opsLeft = MaxOps

NextActivate ==
    \/ StartActivation("t1")
    \/ MCGetStreamsReturn("t1")
    \/ MCGetSubscriptionsReturn("t1")
    \/ GSCreateStream("t1")
    \/ GSCreateStreamReturn("t1")
    \/ ActivateSubscribe("t1")
    \/ SubscribeReturn("t1")
    \/ SubscribeFails("t1")
    \/ Finish("t1")

SpecActivate == InitActivate /\ [][NextActivate]_vars

-----------------------------------------------------------------------------
(* What the reconciler is to find, stated on the listing as a whole: the    *)
(* positions of the subscriptions of a stream, their decoded fields, and    *)
(* how often an event name occurs in a pool group.                          *)

Required == {ALL_SUBSCRIBED_EVENTS[i] : i \in 1..Len(ALL_SUBSCRIBED_EVENTS)}

\* the non-base subscriptions listed on the stream
OnStream(streamId) ==
    {i \in 1..Len(subs) : subs[i].stream = streamId /\ subs[i].name # baseSubscription}

PartsAt(i) == unpackSubscriptionName(subs[i].name)

Decodes(i) == PartsAt(i).poolLocator # UndefLocator /\ PartsAt(i).event # Undef

AllDecode(streamId) == \A i \in OnStream(streamId) : Decodes(i)

GroupAt(i) == <<PartsAt(i).instancePath, PartsAt(i).poolLocator, PartsAt(i).poolData>>

Groups(streamId) == {GroupAt(i) : i \in OnStream(streamId)}

Members(streamId, g) == {i \in OnStream(streamId) : GroupAt(i) = g}

Occurrences(streamId, g, e) ==
    Cardinality({i \in Members(streamId, g) : PartsAt(i).event = e})

EventNames(streamId, g) == {PartsAt(i).event : i \in Members(streamId, g)}

\* the group holds one subscription for each required event and no other
GroupComplete(streamId, g) ==
    /\ EventNames(streamId, g) = Required
    /\ \A e \in Required : Occurrences(streamId, g, e) = 1

\* a migrationCheck() call that has returned, having found a stream
Checked(t) ==
    /\ op[t] = "migrationCheck" /\ pc[t] = "done"
    /\ loc[t].existing # NoStream

\* C2: when a stream is found and every non-base subscription on it decodes,
\* migrationCheck() returns false if and only if every pool group (same instance
\* path, pool locator and pool data) holds exactly the four required event
\* names, one subscription for each; a group lacking one of them, or holding a
\* name outside the required set, makes it return true.
C2_ReturnsFalseIffGroupsComplete ==
    \A t \in Tasks :
        Checked(t) /\ AllDecode(loc[t].existing.id) =>
            (loc[t].result = "false" <=>
                \A g \in Groups(loc[t].existing.id) : GroupComplete(loc[t].existing.id, g))

\* a complete group beside the base subscription is accepted
C2_Witness ==
    /\ Checked("t1") /\ loc["t1"].result = "false"
    /\ Cardinality(OnStream(1)) = 4
    /\ \E i \in 1..Len(subs) : subs[i].name = baseSubscription

Swap(list, i) ==
    [k \in 1..Len(list) |-> IF k = i THEN list[i + 1] ELSE IF k = i + 1 THEN list[i] ELSE list[k]]

C4_UndecodableNameSignalsDrift ==
    \A t \in Tasks :
        Checked(t) /\ ~AllDecode(loc[t].existing.id) => loc[t].result = "true"

\* the undecodable name is listed last, after a complete group
C4_Witness ==
    /\ Checked("t1") /\ loc["t1"].result = "true"
    /\ Len(subs) = 5 /\ ~Decodes(5)
    /\ \A i \in 1..4 : Decodes(i)
    /\ \A g \in {GroupAt(i) : i \in 1..4} : \A e \in Required : Occurrences(1, g, e) = 1

-----------------------------------------------------------------------------
(* The reconciler and the stream handle, one operation at a time *)

ListCalls == {<<"getStreams">>, <<"getStreams", "getSubscriptions">>}

\* the task is inside migrationCheck(), called directly or by getStream
InsideCheck(t) == pc[t] \in {"getStreams", "getSubscriptions"}

\* C1: a call to migrationCheck() issues list operations only (getStreams,
\* getSubscriptions), and no step taken inside it changes the set of streams or
\* the listing of subscriptions of the directory, whichever boolean it returns.
C1_CheckOnlyObserves ==
    /\ [](\A t \in Tasks : op[t] = "migrationCheck" /\ pc[t] # "idle" =>
              loc[t].calls \in ListCalls)
    /\ [][(\E t \in Tasks : InsideCheck(t)) => UNCHANGED <<streams, subs>>]_vars

\* a check that signalled drift has returned
C1_Witness ==
    /\ Checked("t1") /\ loc["t1"].result = "true"
    /\ loc["t1"].calls = <<"getStreams", "getSubscriptions">>

NoKnownStream ==
    ~HasStream(streams, canonicalName) /\ ~HasStream(streams, legacyName)

\* C5: when getStreams answers and the directory holds neither a stream of the
\* canonical name nor one named by the topic alone, migrationCheck() returns
\* false without failing, does not list the subscriptions and leaves the cached
\* stream handle as it was.
C5_NoStreamReturnsFalse ==
    [][\A t \in Tasks :
          (/\ op[t] = "migrationCheck" /\ pc[t] = "getStreams"
           /\ NoKnownStream
           /\ pc'[t] \notin {"getStreams", "failed"})
          => (/\ pc'[t] = "done"
              /\ loc'[t].result = "false"
              /\ ~loc'[t].failed
              /\ loc'[t].calls = <<"getStreams">>
              /\ stream' = stream)]_vars

\* the directory holds a stream, but none of the two names
C5_Witness ==
    /\ op["t1"] = "migrationCheck" /\ pc["t1"] = "done"
    /\ loc["t1"].result = "false"
    /\ streams # {} /\ NoKnownStream
    /\ stream = NoStream

\* the task is past the point where migrationCheck() adopts a stream it found
PastAdoption(t) ==
    \/ pc[t] \in {"getSubscriptions", "checked"}
    \/ op[t] = "migrationCheck" /\ pc[t] = "done"

\* C6: migrationCheck() caches the stream of the canonical name when the
\* directory holds one (also when it holds a legacy-named one too) and the
\* legacy-named stream only when it holds no canonical one, whether the call
\* then returns true or false.
C6_AdoptsCanonicalElseLegacy ==
    \A t \in Tasks :
        PastAdoption(t) =>
            /\ HasStream(streams, canonicalName) =>
                  stream \in streams /\ stream.name = canonicalName
            /\ ~HasStream(streams, canonicalName) /\ HasStream(streams, legacyName) =>
                  stream \in streams /\ stream.name = legacyName

\* both names exist, the canonical stream is adopted and drift is signalled
C6_Witness ==
    /\ Checked("t1") /\ loc["t1"].result = "true"
    /\ HasStream(streams, legacyName)
    /\ stream.name = canonicalName

\* C7: when the adopted stream has no subscription other than the base
\* subscription (or none at all), migrationCheck() returns false, whatever is
\* subscribed on other streams.
C7_OnlyBaseReturnsFalse ==
    \A t \in Tasks :
        Checked(t) /\ OnStream(loc[t].existing.id) = {} => loc[t].result = "false"

\* the adopted stream holds the base subscription, another stream holds a
\* subscription whose name does not decode
C7_Witness ==
    /\ Checked("t1") /\ loc["t1"].result = "false"
    /\ \E i \in 1..Len(subs) :
          subs[i].stream = stream.id /\ subs[i].name = baseSubscription
    /\ \E i \in 1..Len(subs) :
          subs[i].stream # stream.id /\ ~Decodes(i)

UsesGetStream(t) == op[t] \in {"onConnect", "init", "activatePool"}

\* C8: getStream() with a cached stream returns it without a directory call;
\* without one it has migrationCheck() return before it issues the one
\* createOrUpdateStream call, names it by the stream the check adopted, and by
\* the canonical name only when the check adopted none; the stream it returns
\* and caches is then the adopted one, so that no second stream is created.
\* This holds whatever the check returned.
C8_GetStreamChecksThenCreates ==
    \A t \in Tasks :
        UsesGetStream(t) =>
            /\ pc[t] = "gotStream" /\ loc[t].entry # NoStream =>
                  loc[t].calls = <<>> /\ loc[t].ret = loc[t].entry
            /\ pc[t] = "createStream" =>
                  /\ loc[t].result \in {"true", "false"}
                  /\ loc[t].calls \in {Append(c, "createOrUpdateStream") : c \in ListCalls}
                  /\ loc[t].name =
                        IF loc[t].existing # NoStream THEN loc[t].existing.name
                        ELSE canonicalName
            /\ pc[t] = "gotStream" /\ loc[t].entry = NoStream =>
                  /\ stream = loc[t].ret
                  /\ loc[t].ret \in streams
                  /\ loc[t].existing # NoStream => loc[t].ret = loc[t].existing
                  /\ loc[t].existing = NoStream => loc[t].ret.name = canonicalName

\* the check signalled drift on a legacy-named stream and getStream returned it
C8_Witness ==
    /\ UsesGetStream("t1") /\ pc["t1"] = "gotStream"
    /\ loc["t1"].result = "true"
    /\ loc["t1"].ret.name = legacyName

\* C9 as stated: once the cached stream handle is resolved, no operation
\* replaces it with a different stream.
C9_HandleNeverReplaced ==
    [][stream # NoStream => stream' = stream]_vars

\* the callers of getStream whose call issued the named directory call and
\* did not fail
Issued(call) ==
    {t \in Tasks : /\ UsesGetStream(t) /\ ~loc[t].failed
                   /\ \E i \in 1..Len(loc[t].calls) : loc[t].calls[i] = call}

\* the callers to which getStream has returned a stream
Served == {t \in Tasks : UsesGetStream(t) /\ loc[t].ret # NoStream}

\* C10 as stated: first resolution of the handle is single-flight: among the
\* callers that entered getStream before the cache was populated, the migration
\* check and the createOrUpdateStream call are each issued at most once, and
\* all callers obtain the same stream.
C10_SingleFlight ==
    /\ Cardinality(Issued("getStreams")) <= 1
    /\ Cardinality(Issued("createOrUpdateStream")) <= 1
    /\ \A t1, t2 \in Served : loc[t1].ret = loc[t2].ret

-----------------------------------------------------------------------------
(* The URI-support probe *)

\* the capability queries issued so far
ProbeQueries == {k \in 1..Len(queries) : queries[k].method = "supportsInterface"}

\* an isCustomUriSupported() call that has returned
Probed(t) == op[t] = "isCustomUriSupported" /\ pc[t] = "done"

\* C11: with isCustomUriSupported() called one call at a time, the capability
\* query is issued by the first call only; a call that finds the flag set issues
\* no query and returns the flag; the first call returns true only when the
\* query answered the boolean true, and false when it failed; once set, the flag
\* keeps its value, so a failed query is never asked again.
C11_ProbeOnceThenCached ==
    /\ [](/\ Cardinality(ProbeQueries) <= 1
          /\ \A t \in Tasks :
               Probed(t) =>
                  /\ frame[t].result = supportsCustomUri
                  /\ frame[t].result \in {"true", "false"}
                  /\ frame[t].seen # Undef =>
                        frame[t].query = 0 /\ frame[t].result = frame[t].seen
                  /\ frame[t].seen = Undef =>
                        /\ frame[t].query \in ProbeQueries
                        /\ frame[t].result = "true" <=>
                              queries[frame[t].query].answer = "true")
    /\ [][supportsCustomUri # Undef => supportsCustomUri' = supportsCustomUri]_vars

\* a later call returns false without a query, the only query having failed
C11_Witness ==
    /\ Probed("t1")
    /\ frame["t1"].seen = "false" /\ frame["t1"].result = "false"
    /\ Cardinality(ProbeQueries) = 1
    /\ \A k \in ProbeQueries : queries[k].answer = "failed"

\* C12 as stated: under every interleaving of the callers of
\* isCustomUriSupported() the flag is written once (its value never changes after
\* it has been set) and at most one capability query is ever issued.
C12_WriteOnceOneQuery ==
    /\ [](Cardinality(ProbeQueries) <= 1)
    /\ [][supportsCustomUri # Undef => supportsCustomUri' = supportsCustomUri]_vars

-----------------------------------------------------------------------------
(* Pool activation *)

\* the block number a pool locator carries, '0' when it carries none
LocatorBlock(locator) == IF Len(locator) >= 2 THEN locator[2] ELSE "0"

\* the subscription name of a pool for an event, segment by segment
PoolSubscriptionName(dto, event) ==
    <<<<"fft">>, <<instancePath>>, dto.poolLocator, <<event>>>>
        \o (IF dto.poolData # Undef THEN <<<<dto.poolData>>>> ELSE <<>>)

\* C13: when activatePool, holding the resolved stream, issues its subscription
\* calls, it issues exactly four, one per event kind, each named from the pool
\* locator and the pool data of the request; the calls for pool creation, single
\* transfer and batch transfer start from the block number of the locator ('0'
\* when it has none) and the call for approvals starts from block '0'.
C13_FourCallsSeeded ==
    [][\A t \in Tasks :
          (op[t] = "activatePool" /\ pc[t] = "gotStream" /\ pc'[t] = "subscribe") =>
             /\ loc[t].ret = stream /\ loc[t].ret \in streams
             /\ Cardinality(loc'[t].pending) = 4
             /\ \A e \in Required : \E c \in loc'[t].pending : c.event = e
             /\ \A c \in loc'[t].pending :
                  /\ c.name = PoolSubscriptionName(loc[t].dto, c.event)
                  /\ c.fromBlock = IF c.event = approvalForAllEvent THEN "0"
                                   ELSE LocatorBlock(loc[t].dto.poolLocator)]_vars

\* the four calls of a pool created at block 5 are in flight; those of a pool
\* whose locator has no block number have completed before
C13_Witness ==
    /\ op["t1"] = "activatePool" /\ pc["t1"] = "subscribe"
    /\ Cardinality(loc["t1"].pending) = 4
    /\ \E c \in loc["t1"].pending : c.event = approvalForAllEvent /\ c.fromBlock = "0"
    /\ \E c \in loc["t1"].pending : c.event = transferBatchEvent /\ c.fromBlock = "5"
    /\ \E i \in 1..Len(subs) :
          subs[i].name = PoolSubscriptionName(
                             [poolLocator |-> <<"N2">>, poolData |-> Undef], tokenCreateEvent)
          /\ subs[i].fromBlock = "0"

\* the task runs activatePool and has issued its four subscription calls
CallsIssued(t) ==
    /\ op[t] = "activatePool"
    /\ loc[t].calls # <<>>
    /\ loc[t].calls[Len(loc[t].calls)] = "getOrCreateSubscription"

\* the event kinds whose call has completed without failing
Succeeded(t) ==
    {e \in Required : ~\E c \in loc[t].pending \cup loc[t].rejected : c.event = e}

\* C14: activatePool succeeds if and only if each of its four calls succeeds,
\* in whatever order they complete; as soon as one fails the activation has
\* failed as a whole; a failing call leaves the directory as it is and takes no
\* sibling out of flight, no step removes a subscription, and the activation is
\* over only when every call has completed; the subscriptions of the calls that
\* succeeded are then on the stream, and on a directory that was empty they are
\* all it holds.
C14_AllOrNothingNoRollback ==
    /\ [](\A t \in Tasks :
            CallsIssued(t) =>
               /\ pc[t] \in {"subscribe", "done", "failed"}
               /\ pc[t] = "done" <=> (loc[t].pending = {} /\ loc[t].rejected = {})
               /\ pc[t] = "failed" <=> loc[t].rejected # {}
               /\ \A e \in Succeeded(t) :
                    \E i \in 1..Len(subs) :
                       /\ subs[i].name = PoolSubscriptionName(loc[t].dto, e)
                       /\ subs[i].stream = loc[t].ret.id
               /\ opsLeft = MaxOps - 1 =>
                    /\ Len(subs) = Cardinality(Succeeded(t))
                    /\ \A i \in 1..Len(subs) :
                         \E e \in Succeeded(t) :
                            subs[i].name = PoolSubscriptionName(loc[t].dto, e))
    /\ [][/\ Len(subs') >= Len(subs)
          /\ \A i \in 1..Len(subs) : subs'[i] = subs[i]
          /\ \A t \in Tasks :
               CallsIssued(t) =>
                  /\ loc'[t].rejected \ loc[t].rejected # {} =>
                        /\ subs' = subs
                        /\ loc'[t].pending = loc[t].pending \ loc'[t].rejected
                        /\ Cardinality(loc'[t].rejected) = Cardinality(loc[t].rejected) + 1
                  /\ pc'[t] = "idle" => loc[t].pending = {}]_vars

\* one call failed, its three siblings completed: three subscriptions exist
C14_Witness ==
    /\ CallsIssued("t1") /\ pc["t1"] = "failed"
    /\ loc["t1"].pending = {}
    /\ Cardinality(loc["t1"].rejected) = 1
    /\ opsLeft = MaxOps - 1
    /\ Len(subs) = 3

-----------------------------------------------------------------------------
(* The event listener, one event at a time *)

KnownSignatures ==
    {tokenCreateEventSignatureOld, tokenCreateEventSignature, transferSingleEventSignature,
     transferBatchEventSignature, approvalForAllEventSignature}

\* what follows the first ':' of a signature, when that ':' is not its first
\* character (at most one string)
AfterFirstColon(signature) ==
    {SubSeq(signature, k + 1, Len(signature)) :
        k \in {i \in 2..Len(signature) :
                  /\ SubSeq(signature, i, i) = ":"
                  /\ \A j \in 1..(i - 1) : SubSeq(signature, j, j) # ":"}}

\* the signature the event is dispatched on
Dispatched(signature) ==
    IF AfterFirstColon(signature) = {} THEN signature
    ELSE CHOOSE suffix \in AfterFirstColon(signature) : TRUE

\* the task enters or runs onEvent in the step
InOnEvent(t) == op'[t] = "onEvent"

\* the step in which onEvent returns to the dispatcher
Completes(t) == InOnEvent(t) /\ pc[t] # "done" /\ pc'[t] = "done"

\* what the step hands to the event processor
Handed == SubSeq(sink', Len(sink) + 1, Len(sink'))

\* the sink has only grown in the step
SinkGrows == Len(sink') >= Len(sink) /\ SubSeq(sink', 1, Len(sink)) = sink

\* C15: onEvent with an event whose signature is none of the recognised ones
\* returns at once without failing; it hands nothing to the event processor,
\* issues no contract query and changes nothing of the connector's state.
C15_UnknownSignatureDropped ==
    [][\A t \in Tasks :
          (InOnEvent(t) /\ Dispatched(frame'[t].event.signature) \notin KnownSignatures) =>
             /\ pc[t] = "idle" /\ pc'[t] = "done"
             /\ sink' = sink /\ queries' = queries
             /\ supportsCustomUri' = supportsCustomUri
             /\ UNCHANGED <<streams, subs, stream, proxyTopic, uriPattern, history>>]_vars

\* a single-transfer signature behind a ':' in first position is not recognised;
\* the event is dropped after another event has been translated
C15_Witness ==
    /\ op["t1"] = "onEvent" /\ pc["t1"] = "done"
    /\ frame["t1"].event.signature = ":" \o transferSingleEventSignature
    /\ opsLeft = 0
    /\ sink # <<>> /\ sink[Len(sink)] # NoMessage

\* the event of the task is a pool-creation event with a decodable type id
CreationOf(fr) ==
    /\ Dispatched(fr.event.signature) \in
          {tokenCreateEventSignatureOld, tokenCreateEventSignature}
    /\ ValidTokenId(fr.event.ids[1])

\* the pool id that a token identifier belongs to
PoolOf(id) == id[1] \o id[2]

\* the pool id in the locator of the subscription name; Undef when the name
\* yields no locator
SubscriptionPool(subName) ==
    IF unpackSubscriptionName(subName).poolLocator = UndefLocator THEN Undef
    ELSE unpackSubscriptionName(subName).poolLocator[1]

\* C16: onEvent with a pool-creation event hands a token-pool event to the
\* processor if and only if the subscription is the base subscription or the
\* pool id of its locator is the pool id of the event's type id; otherwise the
\* event is discarded: onEvent does not fail, no token-pool event is handed over
\* and no query is issued.
C16_PoolCreationAcceptance ==
    [][\A t \in Tasks :
          (InOnEvent(t) /\ CreationOf(frame'[t])) =>
             LET pool == SubscriptionPool(frame'[t].subName)
                 accepted == pool \in {BASE_SUBSCRIPTION_NAME, PoolOf(frame'[t].event.ids[1])}
             IN /\ pc'[t] # "failed"
                /\ SinkGrows
                /\ \A k \in 1..Len(Handed) : Handed[k].event \in {"token-pool", Undef}
                /\ Completes(t) =>
                      /\ accepted <=> (\E k \in 1..Len(Handed) : Handed[k].event = "token-pool")
                      /\ Len(Handed) = 1
                /\ ~accepted => Completes(t) /\ queries' = queries]_vars

\* the creation of pool N2 delivered under a subscription of pool F1 is discarded
C16_Witness ==
    /\ op["t1"] = "onEvent" /\ pc["t1"] = "done"
    /\ CreationOf(frame["t1"])
    /\ frame["t1"].event.ids[1] = <<"N", "2", "0">>
    /\ SubscriptionPool(frame["t1"].subName) = "F1"
    /\ sink = <<NoMessage>>

\* C17: the pool locator of an emitted token-pool event is made of the pool id
\* of the event's type id and of the event's own block number, whatever block
\* the locator of the delivering subscription carries; an activatePool with an
\* emitted locator seeds the pool-creation and transfer subscriptions from that
\* block (from '0' when the event carried no block number).
C17_LocatorCarriesCreationBlock ==
    /\ [][\A t \in Tasks :
            (Completes(t) /\ CreationOf(frame'[t])) =>
               \A k \in 1..Len(Handed) :
                  Handed[k].event = "token-pool" =>
                     Handed[k].poolLocator =
                        <<PoolOf(frame'[t].event.ids[1])>>
                           \o (IF frame'[t].event.blockNumber # Undef
                               THEN <<frame'[t].event.blockNumber>> ELSE <<>>)]_vars
    /\ [](\A t \in Tasks :
            op[t] = "activatePool" =>
               \E k \in 1..Len(sink) :
                  /\ sink[k].event = "token-pool"
                  /\ sink[k].poolLocator = loc[t].dto.poolLocator
                  /\ \A c \in loc[t].pending :
                       c.event # approvalForAllEvent =>
                          c.fromBlock = IF sink[k].blockNumber # Undef
                                        THEN sink[k].blockNumber ELSE "0")

\* a pool created at block 7, announced under a subscription whose locator
\* carries block 5
C17_Witness ==
    /\ op["t1"] = "onEvent" /\ pc["t1"] = "done"
    /\ CreationOf(frame["t1"])
    /\ unpackSubscriptionName(frame["t1"].subName).poolLocator = <<"F1", "5">>
    /\ sink # <<>> /\ sink[Len(sink)].poolLocator = <<"F1", "7">>

\* the event of the task is a single transfer with a decodable token id
SingleOf(fr) ==
    /\ Dispatched(fr.event.signature) = transferSingleEventSignature
    /\ ValidTokenId(fr.event.ids[1])

\* C18: for a single transfer of the subscribed pool, the two addresses alone
\* decide what onEvent hands over: a token-mint when only from is the zero
\* address, a token-burn when only to is, a token-transfer when neither is, and
\* no message when both are; the translation does not fail.
C18_KindBySentinelAddresses ==
    [][\A t \in Tasks :
          (/\ InOnEvent(t) /\ SingleOf(frame'[t])
           /\ SubscriptionPool(frame'[t].subName) = PoolOf(frame'[t].event.ids[1])) =>
             LET from == frame'[t].event.from
                 to == frame'[t].event.to
             IN /\ pc'[t] # "failed"
                /\ Completes(t) =>
                     /\ Len(Handed) = 1
                     /\ Handed[1].event =
                          IF from = ZERO_ADDRESS /\ to = ZERO_ADDRESS THEN Undef
                          ELSE IF from = ZERO_ADDRESS THEN "token-mint"
                          ELSE IF to = ZERO_ADDRESS THEN "token-burn"
                          ELSE "token-transfer"]_vars

\* a non-fungible token of the subscribed pool is burnt
C18_Witness ==
    /\ op["t1"] = "onEvent" /\ pc["t1"] = "done"
    /\ SingleOf(frame["t1"])
    /\ frame["t1"].event.ids[1] = <<"N", "2", "7">>
    /\ frame["t1"].event.from = "0xabc" /\ frame["t1"].event.to = ZERO_ADDRESS
    /\ sink # <<>> /\ sink[Len(sink)].event = "token-burn"

\* the single transfer of the task is of another pool than the subscription's
CrossPool(fr) ==
    SingleOf(fr) /\ SubscriptionPool(fr.subName) # PoolOf(fr.event.ids[1])

\* C19 as stated: for a single transfer of another pool than the subscription's,
\* onEvent does not invoke the event processor and issues no URI query.
C19_CrossPoolSinkNotInvoked ==
    [][\A t \in Tasks :
          (InOnEvent(t) /\ CrossPool(frame'[t])) =>
             sink' = sink /\ queries' = queries]_vars

\* C19 as amended: for a single transfer of another pool than the
\* subscription's, onEvent returns at once without failing, having invoked the
\* event processor once with undefined in place of a message, so that no domain
\* event is handed over; no URI query is issued.
C19_CrossPoolHandsNoMessage ==
    [][\A t \in Tasks :
          (InOnEvent(t) /\ CrossPool(frame'[t])) =>
             /\ pc[t] = "idle" /\ pc'[t] = "done"
             /\ sink' = Append(sink, NoMessage)
             /\ queries' = queries]_vars

\* a transfer of a token of pool N2 was delivered under a subscription of pool F1
C19_Witness ==
    /\ op["t1"] = "onEvent" /\ pc["t1"] = "done"
    /\ CrossPool(frame["t1"])
    /\ frame["t1"].event.ids[1] = <<"N", "2", "7">>
    /\ SubscriptionPool(frame["t1"].subName) = "F1"
    /\ frame["t1"].event.from = ZERO_ADDRESS /\ frame["t1"].event.to = "0xabc"
    /\ sink = <<NoMessage>> /\ queries = <<>>

BatchOf(fr) == Dispatched(fr.event.signature) = transferBatchEventSignature

\* the positions (from 0) of the entries that the single-transfer rule accepts
AcceptedEntries(fr) ==
    {i \in 0..(Len(fr.event.ids) - 1) :
        /\ SubscriptionPool(fr.subName) = PoolOf(fr.event.ids[i + 1])
        /\ ~(fr.event.from = ZERO_ADDRESS /\ fr.event.to = ZERO_ADDRESS)}

\* a position below 100 written with six digits
SixDigits(i) == (IF i < 10 THEN "00000" ELSE "0000") \o ToString(i)

\* C20: for a batch transfer with N ids, nothing reaches the event processor
\* before the step in which onEvent returns; in that step it receives one
\* message for each accepted entry and none for the others, in ascending order
\* of the entries' positions; the id of the message of entry i is the provenance
\* id, '/' and i in six digits, whatever entries before i were discarded.
C20_BatchExpansionInOrder ==
    [][\A t \in Tasks :
          (InOnEvent(t) /\ BatchOf(frame'[t])) =>
             /\ ~Completes(t) => sink' = sink
             /\ Completes(t) =>
                  LET fr == frame'[t]
                      accepted == AcceptedEntries(fr)
                  IN /\ SinkGrows
                     /\ Len(Handed) = Cardinality(accepted)
                     /\ Len(Handed) <= Len(fr.event.ids)
                     /\ \A i \in accepted :
                          LET k == Cardinality({j \in accepted : j <= i})
                          IN /\ Handed[k].event \in
                                   {"token-mint", "token-burn", "token-transfer"}
                             /\ Handed[k].id =
                                   formatBlockchainEventId(fr.event) \o "/" \o SixDigits(i)]_vars

\* of two entries the first is of another pool: the one message carries /000001
C20_Witness ==
    /\ op["t1"] = "onEvent" /\ pc["t1"] = "done"
    /\ BatchOf(frame["t1"])
    /\ frame["t1"].event.ids = <<<<"N", "2", "7">>, <<"F", "1">>>>
    /\ SubscriptionPool(frame["t1"].subName) = "F1"
    /\ Len(sink) = 1
    /\ sink[1].id = "000000000007/000026/000003/000001"

\* the event of the task is an approval-for-all event
ApprovalOf(fr) == Dispatched(fr.event.signature) = approvalForAllEventSignature

\* the two messages come from one log entry of the chain
SameLogEntry(m, n) ==
    /\ m.blockNumber = n.blockNumber
    /\ m.transactionIndex = n.transactionIndex
    /\ m.logIndex = n.logIndex

\* C21: onEvent with an approval-for-all event under a subscription whose name
\* yields a pool locator never fails and hands exactly one token-approval
\* message to the processor, whatever the pool; its id is the provenance id,
\* '/' and the pool id of the subscription, and no query is issued. Two
\* token-approval messages of one log entry delivered under the subscriptions
\* of two pools carry distinct ids.
C21_ApprovalIdCarriesPool ==
    /\ [][\A t \in Tasks :
             (InOnEvent(t) /\ ApprovalOf(frame'[t])) =>
                /\ pc'[t] # "failed"
                /\ (Completes(t) /\ SubscriptionPool(frame'[t].subName) # Undef) =>
                     /\ Len(Handed) = 1
                     /\ Handed[1].event = "token-approval"
                     /\ Handed[1].id = formatBlockchainEventId(frame'[t].event)
                                          \o "/" \o SubscriptionPool(frame'[t].subName)
                     /\ Handed[1].poolLocator =
                          unpackSubscriptionName(frame'[t].subName).poolLocator
                     /\ queries' = queries]_vars
    /\ [](\A i, j \in 1..Len(sink) :
             (/\ sink[i].event = "token-approval" /\ sink[j].event = "token-approval"
              /\ SameLogEntry(sink[i], sink[j])
              /\ sink[i].poolLocator[1] # sink[j].poolLocator[1]) =>
                sink[i].id # sink[j].id)

\* one approval delivered under the subscriptions of pools F1 and N2
C21_Witness ==
    /\ op["t1"] = "onEvent" /\ pc["t1"] = "done"
    /\ ApprovalOf(frame["t1"])
    /\ Len(sink) = 2
    /\ sink[1].id = "000000000007/000026/000003/F1"
    /\ sink[2].id = "000000000007/000026/000003/N2"
    /\ SameLogEntry(sink[1], sink[2])

-----------------------------------------------------------------------------
(* Provenance ids: transfers of one pool taken from several places of the   *)
(* chain, translated one after the other                                    *)

\* block numbers and log indexes as the connector reports them, transaction
\* indexes in hexadecimal; the last of each is wider than its padded field
OrderBlocks == {"5", "12"}
OrderTxs == {"0xa", "0x7a120", "0xf4240"}
OrderLogs == {"2", "10", "500000", "1000000"}

OrderedEvents ==
    {[Event(transferSingleEventSignature, b, "0xabc", "0xdef", <<<<"F", "1">>>>)
        EXCEPT !.transactionIndex = x, !.logIndex = l] :
       b \in OrderBlocks, x \in OrderTxs, l \in OrderLogs}

StartOrdered(t) ==
    \E event \in OrderedEvents :
        OnEvent(t, packSubscriptionName(instancePath, <<"F1", "5">>, transferSingleEvent, "ns1"),
                event)

NextOrder ==
    \/ StartOrdered("t1")
    \/ Finish("t1")

SpecOrder == InitListen /\ [][NextOrder]_vars

\* the numbers that the reported strings stand for
BlockNo(s) == IF s = "5" THEN 5 ELSE 12
TxNo(s) == IF s = "0xa" THEN 10 ELSE IF s = "0x7a120" THEN 500000 ELSE 1000000
LogNo(s) ==
    IF s = "2" THEN 2 ELSE IF s = "10" THEN 10 ELSE IF s = "500000" THEN 500000 ELSE 1000000

\* message m comes earlier in the chain than message n
EmittedBefore(m, n) ==
    LET bm == BlockNo(m.blockNumber)
        bn == BlockNo(n.blockNumber)
        xm == TxNo(m.transactionIndex)
        xn == TxNo(n.transactionIndex)
        lm == LogNo(m.logIndex)
        ln == LogNo(n.logIndex)
    IN \/ bm < bn
       \/ bm = bn /\ xm < xn
       \/ bm = bn /\ xm = xn /\ lm < ln

\* the order of the characters of an id as strings are compared
CharRank(ch) == CHOOSE k \in 1..11 : SubSeq("/0123456789", k, k) = ch

\* a < b as strings
RECURSIVE LexLess(_, _)
LexLess(a, b) ==
    IF Len(b) = 0 THEN FALSE
    ELSE IF Len(a) = 0 THEN TRUE
    ELSE IF SubSeq(a, 1, 1) # SubSeq(b, 1, 1)
    THEN CharRank(SubSeq(a, 1, 1)) < CharRank(SubSeq(b, 1, 1))
    ELSE LexLess(SubSeq(a, 2, Len(a)), SubSeq(b, 2, Len(b)))

\* digits filled with zeros on the left up to the width, never cut
ZeroFilled(digits, width) ==
    IF Len(digits) >= width THEN digits
    ELSE SubSeq("000000000000", 1, width - Len(digits)) \o digits

\* the provenance id that the message of a single transfer is to carry
ProvenanceOf(m) ==
    ZeroFilled(m.blockNumber, 12) \o "/"
       \o ZeroFilled(ToString(TxNo(m.transactionIndex)), 6) \o "/"
       \o ZeroFilled(m.logIndex, 6)

\* the three numbers of the message fit the widths of their fields
WithinWidths(m) ==
    /\ Len(m.blockNumber) <= 12
    /\ Len(ToString(TxNo(m.transactionIndex))) <= 6
    /\ Len(m.logIndex) <= 6

\* C22 as stated: every message carries the block number in 12 digits, '/',
\* the transaction index in decimal in 6 digits, '/' and the log index in 6
\* digits, and of any two messages the one earlier in the chain has the id
\* that is smaller as a string.
C22_IdOrderIsChainOrder ==
    \A i, j \in 1..Len(sink) :
        /\ sink[i].id = ProvenanceOf(sink[i])
        /\ EmittedBefore(sink[i], sink[j]) <=> LexLess(sink[i].id, sink[j].id)

\* C22 amended: every message carries the three numbers each filled with zeros
\* to 12, 6 and 6 digits, a wider number being kept whole; of any two messages
\* whose numbers fit the widths, the one earlier in the chain has the id that
\* is smaller as a string.
C22_IdOrderWithinWidths ==
    \A i, j \in 1..Len(sink) :
        /\ sink[i].id = ProvenanceOf(sink[i])
        /\ (WithinWidths(sink[i]) /\ WithinWidths(sink[j])) =>
              (EmittedBefore(sink[i], sink[j]) <=> LexLess(sink[i].id, sink[j].id))

\* log 10 is translated before log 2 of the same transaction
C22_Witness ==
    /\ Len(sink) = 2
    /\ sink[1].id = "000000000005/000010/000010"
    /\ sink[2].id = "000000000005/000010/000002"
    /\ EmittedBefore(sink[2], sink[1])
    /\ LexLess(sink[2].id, sink[1].id)

-----------------------------------------------------------------------------
(* The queries of the listener *)

\* the positions in the log of the queries of a method issued since the
\* operation of the task was entered
QueriesOf(t, method) ==
    {k \in (frame[t].asked + 1)..Len(queries) : queries[k].method = method}

\* the event of the task is a single or a batch transfer
TransferOf(fr) ==
    Dispatched(fr.event.signature) \in
       {transferSingleEventSignature, transferBatchEventSignature}

\* entry i (from 0) is an accepted transfer of a non-fungible token
NonFungibleAccepted(fr, i) ==
    /\ ValidTokenId(fr.event.ids[i + 1])
    /\ fr.event.ids[i + 1][1] = "N"
    /\ SubscriptionPool(fr.subName) = PoolOf(fr.event.ids[i + 1])
    /\ ~(fr.event.from = ZERO_ADDRESS /\ fr.event.to = ZERO_ADDRESS)

\* the number of entries whose transformation has returned
EntriesReturned(t) ==
    IF BatchOf(frame[t]) THEN frame[t].index
    ELSE IF pc[t] = "done" THEN 1 ELSE 0

\* C23: at every point of the translation of a single or batch transfer, the
\* metadata-URI queries issued so far are one for each accepted non-fungible
\* entry already transformed, plus the one awaited; a query is awaited only for
\* an accepted non-fungible entry, so a fungible or discarded entry issues
\* none. In the sink a transfer message of a fungible token carries no URI and
\* one of a non-fungible token carries one.
C23_UriQueryPerNonFungible ==
    /\ (\A t \in Tasks :
            (op[t] = "onEvent" /\ TransferOf(frame[t])) =>
               LET fr == frame[t]
                   returned == {i \in 0..(EntriesReturned(t) - 1) : NonFungibleAccepted(fr, i)}
               IN /\ Cardinality(QueriesOf(t, "uri")) =
                        Cardinality(returned) + (IF pc[t] = "tokenUri" THEN 1 ELSE 0)
                  /\ pc[t] = "tokenUri" => NonFungibleAccepted(fr, fr.index))
    /\ (\A k \in 1..Len(sink) :
            sink[k].event \in {"token-mint", "token-burn", "token-transfer"} =>
               (sink[k].tokenIndex = Undef <=> sink[k].uri = <<Undef>>))

\* a fungible transfer, then a batch of two non-fungible tokens: three messages
\* and two queries
C23_Witness ==
    /\ op["t1"] = "onEvent" /\ pc["t1"] = "done"
    /\ BatchOf(frame["t1"])
    /\ frame["t1"].event.ids = <<<<"N", "2", "7">>, <<"N", "2", "7">>>>
    /\ Cardinality(QueriesOf("t1", "uri")) = 2
    /\ Len(sink) = 3
    /\ sink[1].tokenIndex = Undef /\ sink[1].uri = <<Undef>>
    /\ sink[1].event = "token-transfer"
    /\ Len(queries) = 2

\* the query awaited by the task fails in the step
QueryFails(t) ==
    /\ frame[t].query \in 1..Len(queries)
    /\ queries[frame[t].query].answer = "pending"
    /\ queries'[frame[t].query].answer = "failed"

\* the method of the query awaited by the task
Awaited(t) == queries[frame[t].query].method

\* the message that the step makes of the transfer being transformed
Transformed(t) ==
    IF BatchOf(frame[t]) THEN frame'[t].messages[Len(frame'[t].messages)]
    ELSE sink'[Len(sink')]

C25_BaseUriFollowsFlag ==
    \A t \in Tasks :
         (op[t] = "onEvent" /\ CreationOf(frame[t])) =>
            LET pool == SubscriptionPool(frame[t].subName)
                accepted == pool \in {BASE_SUBSCRIPTION_NAME, PoolOf(frame[t].event.ids[1])}
                asked == QueriesOf(t, "baseTokenUri")
            IN /\ pc[t] # "failed"
               /\ ~accepted => asked = {} /\ QueriesOf(t, "supportsInterface") = {}
               /\ Cardinality(asked) <= 1
               /\ asked # {} => supportsCustomUri = "true"
               /\ (pc[t] = "done" /\ accepted) =>
                    LET m == sink[Len(sink)]
                    IN /\ m.event = "token-pool"
                       /\ m.baseUri # Undef <=> supportsCustomUri = "true"
                       /\ asked # {} <=> supportsCustomUri = "true"
                       /\ \A k \in asked :
                            m.baseUri = IF queries[k].answer = "failed" THEN ""
                                        ELSE queries[k].answer

\* the contract has the capability and its base-URI query fails
C25_Witness ==
    /\ op["t1"] = "onEvent" /\ pc["t1"] = "done"
    /\ CreationOf(frame["t1"])
    /\ supportsCustomUri = "true"
    /\ queries[Len(queries)] = [method |-> "baseTokenUri", answer |-> "failed"]
    /\ sink[Len(sink)].event = "token-pool"
    /\ sink[Len(sink)].baseUri = ""

\* the step hands no message to the processor
HandsNoMessage == \A k \in 1..Len(Handed) : Handed[k] = NoMessage

-----------------------------------------------------------------------------
(* Every operation of the connector, one at a time, over a directory that   *)
(* already holds streams and subscriptions                                  *)

\* one event of each kind, with the subscription it is delivered under
CoreDeliveries ==
    {<<baseSubscription,
       Event(tokenCreateEventSignature, "7", Undef, Undef, <<<<"N", "2", "0">>>>)>>,
     <<packSubscriptionName(instancePath, <<"N2">>, transferSingleEvent, Undef),
       Event(transferSingleEventSignature, "7", ZERO_ADDRESS, "0xabc", <<<<"N", "2", "7">>>>)>>,
     <<packSubscriptionName(instancePath, <<"F1", "5">>, transferBatchEvent, "ns1"),
       Event(transferBatchEventSignature, "7", "0xabc", "0xdef", <<<<"F", "1">>, <<"zz">>>>)>>,
     <<packSubscriptionName(instancePath, <<"F1", "5">>, approvalForAllEvent, "ns1"),
       Event(approvalForAllEventSignature, "7", Undef, Undef, <<>>)>>,
     <<legacySubscription,
       Event("Transfer(address,address,uint256)", "7", ZERO_ADDRESS, "0xabc", <<<<"F", "1">>>>)>>}

StartCoreEvent(t) == \E d \in CoreDeliveries : OnEvent(t, d[1], d[2])

\* the directory holds any of the initial streams and at most one subscription
InitCore ==
    /\ streams \in InitialStreams
    /\ subs \in {<<>>, <<[name |-> legacySubscription, stream |-> 1, fromBlock |-> "0"]>>}
    /\ InitTasks
    /\ opsLeft = MaxOps

NextCore ==
    \/ StartOnConnect("t1")
    \/ StartInit("t1")
    \/ StartActivatePool("t1")
    \/ StartMigrationCheck("t1")
    \/ StartCoreEvent("t1")
    \/ StartProbe("t1")
    \/ StartBalance("t1")
    \/ StartMint("t1")
    \/ StartTransaction("t1")
    \/ MCGetStreamsReturn("t1")
    \/ MCGetSubscriptionsReturn("t1")
    \/ GSCreateStream("t1")
    \/ GSCreateStreamReturn("t1")
    \/ OnConnectConfigure("t1")
    \/ InitSubscribe("t1")
    \/ ActivateSubscribe("t1")
    \/ SubscribeReturn("t1")
    \/ SubscribeFails("t1")
    \/ CallFails("t1")
    \/ ProbeReturn("t1")
    \/ BaseUriReturn("t1")
    \/ BatchStep("t1")
    \/ TokenUriReturn("t1")
    \/ BalanceReturn("t1")
    \/ SendReturn("t1")
    \/ Finish("t1")

SpecCore == InitCore /\ [][NextCore]_vars

\* C27: no step of any operation (onConnect, init, getStream, migrationCheck,
\* activatePool with or without failing calls, onEvent, the probe, balance,
\* createPool, mint, transfer, burn, approval) removes a stream or a
\* subscription: every stream of the directory is still there after the step,
\* and the listing of subscriptions after the step starts with the listing
\* before it.
C27_DirectoryOnlyGrows ==
    [][/\ streams \subseteq streams'
       /\ Len(subs') >= Len(subs)
       /\ SubSeq(subs', 1, Len(subs)) = subs]_vars

\* an activation has failed after it created a stream and two subscriptions
\* next to the one that was there
C27_Witness ==
    /\ op["t1"] = "activatePool" /\ pc["t1"] = "failed"
    /\ loc["t1"].pending = {}
    /\ Cardinality(loc["t1"].rejected) = 2
    /\ Cardinality(streams) = 2
    /\ Len(subs) = 3
    /\ subs[1].name = legacySubscription

-----------------------------------------------------------------------------
(* The life of the subscriptions: init, activations and checks one after    *)
(* the other on a directory that starts empty, every call succeeding        *)

InitAgree ==
    /\ streams = {}
    /\ subs = <<>>
    /\ InitTasks
    /\ opsLeft = MaxCalls

NextAgree ==
    \/ StartInit("t1")
    \/ StartActivation("t1")
    \/ StartMigrationCheck("t1")
    \/ MCGetStreamsReturn("t1")
    \/ MCGetSubscriptionsReturn("t1")
    \/ GSCreateStream("t1")
    \/ GSCreateStreamReturn("t1")
    \/ InitSubscribe("t1")
    \/ ActivateSubscribe("t1")
    \/ SubscribeReturn("t1")
    \/ FinishRecorded("t1")

SpecAgree == InitAgree /\ [][NextAgree]_vars

\* what a subscription is for: the pool locator, the pool data and the event
\* kind that its name decodes to
Purpose(sub) ==
    LET parts == unpackSubscriptionName(sub.name)
    IN <<sub.stream, parts.poolLocator, parts.poolData, parts.event>>

\* activatePool has returned successfully for the pool and pool data
Activated(dto) ==
    \E k \in 1..Len(history) :
        /\ history[k].op = "activatePool"
        /\ history[k].outcome = "done"
        /\ history[k].dto = dto

\* C28: at every point of a sequence of init and activatePool calls no two
\* subscriptions of a stream decode to the same pool locator, pool data and
\* event kind, and at most one subscription of a stream bears the base name; no
\* step of an activatePool that repeats a successful one changes the
\* subscriptions.
C28_OneSubscriptionPerPurpose ==
    /\ [](\A i, j \in 1..Len(subs) :
             i # j => /\ Purpose(subs[i]) # Purpose(subs[j])
                      /\ ~(/\ subs[i].name = baseSubscription
                           /\ subs[j].name = baseSubscription
                           /\ subs[i].stream = subs[j].stream))
    /\ [][\A t \in Tasks :
             (op'[t] = "activatePool" /\ Activated(loc'[t].dto)) => subs' = subs]_vars

\* init, then the same pool activated twice with success: five subscriptions
C28_Witness ==
    /\ Len(history) = 3
    /\ history[1].op = "init"
    /\ history[2].op = "activatePool" /\ history[2].outcome = "done"
    /\ history[3] = history[2]
    /\ Len(subs) = 5
    /\ \E i \in 1..5 : subs[i].name = baseSubscription

\* every activatePool that has returned so far has succeeded
AllActivationsSucceeded ==
    \A k \in 1..Len(history) :
        history[k].op = "activatePool" => history[k].outcome = "done"

\* C29: on a directory that started empty, a migrationCheck that returns after
\* init and successful activations only (of either pool, with or without pool
\* data, repeated or not, or after none at all) returns false.
C29_NoDriftAfterActivations ==
    \A t \in Tasks :
        (op[t] = "migrationCheck" /\ pc[t] = "done" /\ AllActivationsSucceeded) =>
            loc[t].result = "false"

\* the check runs over the base subscription and the four of each of two pools
C29_Witness ==
    /\ op["t1"] = "migrationCheck" /\ pc["t1"] = "done"
    /\ loc["t1"].result = "false"
    /\ loc["t1"].existing # NoStream
    /\ Len(history) = 3
    /\ \E k \in 1..3 : history[k].op = "init" /\ history[k].outcome = "done"
    /\ Len(subs) = 9

-----------------------------------------------------------------------------
(* One pool activated again and again on a directory that starts empty,     *)
(* its subscription calls failing or not, with checks in between            *)

NextRetry ==
    \/ StartActivatePool("t1")
    \/ StartMigrationCheck("t1")
    \/ MCGetStreamsReturn("t1")
    \/ MCGetSubscriptionsReturn("t1")
    \/ GSCreateStream("t1")
    \/ GSCreateStreamReturn("t1")
    \/ ActivateSubscribe("t1")
    \/ SubscribeReturn("t1")
    \/ SubscribeFails("t1")
    \/ FinishRecorded("t1")

SpecRetry == InitAgree /\ [][NextRetry]_vars

\* the positions in the record of the activations that have returned
Activations == {k \in 1..Len(history) : history[k].op = "activatePool"}

\* the outcome of the latest activation that has returned
LatestActivation ==
    history[CHOOSE k \in Activations : \A j \in Activations : j <= k].outcome

\* the event names of the subscriptions that the directory holds for the pool
PoolEvents == {unpackSubscriptionName(subs[i].name).event : i \in 1..Len(subs)}

\* C30: a migrationCheck that returns after an activatePool that failed, the
\* directory holding between one and three of the pool's four subscriptions,
\* returns true; one that returns after an activatePool that succeeded, whether
\* or not earlier ones failed, returns false, and the pool then has exactly
\* four subscriptions, one for each required event.
C30_DriftUntilRetrySucceeds ==
    \A t \in Tasks :
        (op[t] = "migrationCheck" /\ pc[t] = "done" /\ Activations # {}) =>
            /\ (LatestActivation = "failed" /\ Len(subs) \in 1..3) =>
                  loc[t].result = "true"
            /\ LatestActivation = "done" =>
                  /\ loc[t].result = "false"
                  /\ Len(subs) = 4
                  /\ PoolEvents = Required

\* an activation fails, the check reports drift, the retry succeeds, the check
\* reports none
C30_Witness ==
    /\ op["t1"] = "migrationCheck" /\ pc["t1"] = "done"
    /\ loc["t1"].result = "false"
    /\ Len(history) = 3
    /\ history[1].op = "activatePool" /\ history[1].outcome = "failed"
    /\ history[2].op = "migrationCheck" /\ history[2].result = "true"
    /\ history[3].op = "activatePool" /\ history[3].outcome = "done"
    /\ Len(subs) = 4

-----------------------------------------------------------------------------
(* Errors, undecodable names and signatures in the listener *)

\* some entry of the event of the task has an identifier that does not decode
SomeEntryUndecodable(fr) ==
    \E i \in 1..Len(fr.event.ids) : ~ValidTokenId(fr.event.ids[i])

\* C31: in the translation of a batch transfer the processor receives nothing
\* in any step but the one in which onEvent returns, the step in which onEvent
\* fails included; a batch with an undecodable identifier at any position never
\* returns, so the processor receives none of its messages, not even those of
\* the entries translated before the failure.
C31_BatchFailsWithNothingHanded ==
    [][\A t \in Tasks :
          (InOnEvent(t) /\ BatchOf(frame'[t])) =>
             /\ ~Completes(t) => sink' = sink
             /\ pc'[t] = "failed" => sink' = sink
             /\ SomeEntryUndecodable(frame'[t]) => pc'[t] # "done"
             /\ (pc[t] # "failed" /\ pc'[t] = "failed") =>
                   ~ValidTokenId(CurrentId(frame'[t]))]_vars

\* the first entry of a batch has been translated, its URI looked up, and the
\* second has failed: the processor has received nothing
C31_Witness ==
    /\ op["t1"] = "onEvent" /\ pc["t1"] = "failed"
    /\ BatchOf(frame["t1"])
    /\ frame["t1"].event.ids = <<<<"N", "2", "7">>, <<"zz">>>>
    /\ frame["t1"].index = 1
    /\ Len(frame["t1"].messages) = 1
    /\ frame["t1"].messages[1].event = "token-transfer"
    /\ sink = <<>>

\* the event of the task is of one of the four recognised kinds
Recognised(fr) == Dispatched(fr.event.signature) \in KnownSignatures

\* C32: for an event of a recognised kind delivered under a subscription name
\* that yields no pool locator, no step of onEvent issues a query or hands a
\* message to the processor; onEvent fails only on an undecodable token
\* identifier, and when every identifier of the event decodes it returns
\* without awaiting anything, a batch after going through its entries.
C32_NoLocatorNoMessage ==
    [][\A t \in Tasks :
          (/\ InOnEvent(t) /\ Recognised(frame'[t])
           /\ SubscriptionPool(frame'[t].subName) = Undef) =>
             /\ queries' = queries
             /\ HandsNoMessage
             /\ pc'[t] = "failed" => SomeEntryUndecodable(frame'[t])
             /\ ~SomeEntryUndecodable(frame'[t]) =>
                   \/ pc'[t] = "done"
                   \/ BatchOf(frame'[t]) /\ pc'[t] = "batch"]_vars

\* a pool creation and then a batch of two transfers, both delivered under a
\* name without a locator: one undefined handed over, no message, no query
C32_Witness ==
    /\ op["t1"] = "onEvent" /\ pc["t1"] = "done"
    /\ BatchOf(frame["t1"])
    /\ Len(frame["t1"].event.ids) = 2
    /\ frame["t1"].subName = legacySubscription
    /\ sink = <<NoMessage>>
    /\ queries = <<>>
    /\ opsLeft = 0

-----------------------------------------------------------------------------
(* Dispatch: one event of each kind under a fitting subscription, its       *)
(* signature bare or behind one or two prefixes, two deliveries in a row    *)

\* a signature as it stands, behind a prefix, and behind two
Prefixed(signature) ==
    {signature, "0x5e:" \o signature, "0x5f:" \o signature,
     "0x5e:0x5f:" \o signature}

DispatchDeliveries ==
    {<<baseSubscription, Event(sig, "7", Undef, Undef, <<<<"N", "2", "0">>>>)>> :
        sig \in Prefixed(tokenCreateEventSignature)
                   \cup {tokenCreateEventSignatureOld, "0x5e:" \o tokenCreateEventSignatureOld}}
    \cup
    {<<packSubscriptionName(instancePath, <<"N2">>, transferSingleEvent, Undef),
       Event(sig, "7", "0xabc", "0xdef", <<<<"N", "2", "7">>>>)>> :
        sig \in Prefixed(transferSingleEventSignature)}
    \cup
    {<<packSubscriptionName(instancePath, <<"F1", "5">>, transferBatchEvent, "ns1"),
       Event(sig, "7", ZERO_ADDRESS, "0xdef", <<<<"F", "1">>, <<"F", "1">>>>)>> :
        sig \in Prefixed(transferBatchEventSignature)}
    \cup
    {<<packSubscriptionName(instancePath, <<"F1", "5">>, approvalForAllEvent, "ns1"),
       Event(sig, "7", Undef, Undef, <<>>)>> :
        sig \in Prefixed(approvalForAllEventSignature)}

StartDispatch(t) == \E d \in DispatchDeliveries : OnEvent(t, d[1], d[2])

NextDispatch ==
    \/ StartDispatch("t1")
    \/ ProbeReturn("t1")
    \/ BaseUriReturn("t1")
    \/ BatchStep("t1")
    \/ TokenUriReturn("t1")
    \/ FinishRecorded("t1")

SpecDispatch == InitListen /\ [][NextDispatch]_vars

\* the messages handed over by the k-th operation of the record
MessagesOf(k) ==
    SubSeq(sink, (IF k = 1 THEN 0 ELSE history[k - 1].sunk) + 1, history[k].sunk)

\* the queries of the k-th operation of the record, the capability probe apart
AnswersOf(k) ==
    SelectSeq(SubSeq(queries, (IF k = 1 THEN 0 ELSE history[k - 1].asked) + 1,
                     history[k].asked),
              LAMBDA q : q.method # "supportsInterface")

\* two recorded deliveries of one event under one name, the signature apart,
\* whose queries were answered alike
SameDelivery(a, b) ==
    /\ history[a].op = "onEvent" /\ history[b].op = "onEvent"
    /\ history[a].subName = history[b].subName
    /\ [history[a].event EXCEPT !.signature = ""] = [history[b].event EXCEPT !.signature = ""]
    /\ AnswersOf(a) = AnswersOf(b)

\* the signature of delivery a is a prefix, ':' and the signature of delivery b
BehindPrefix(a, b) ==
    history[b].event.signature \in AfterFirstColon(history[a].event.signature)

\* the two deliveries ended alike and handed the same messages over
SameTranslation(a, b) ==
    /\ history[a].outcome = history[b].outcome
    /\ MessagesOf(a) = MessagesOf(b)

\* a message without the name and the signature it repeats
Unsigned(m) == [m EXCEPT !.name = Undef, !.signature = Undef]

\* delivery a has the legacy pool-creation signature, delivery b the current
\* one; they ended alike and handed over token-pool messages that differ in
\* nothing but the name and the signature they repeat
LegacyAlike(a, b) ==
    (/\ Dispatched(history[a].event.signature) = tokenCreateEventSignatureOld
     /\ Dispatched(history[b].event.signature) = tokenCreateEventSignature) =>
        /\ history[a].outcome = history[b].outcome
        /\ Len(MessagesOf(a)) = 1 /\ Len(MessagesOf(b)) = 1
        /\ MessagesOf(a)[1].event = "token-pool"
        /\ Unsigned(MessagesOf(a)[1]) = Unsigned(MessagesOf(b)[1])
        /\ MessagesOf(a)[1].signature = tokenCreateEventSignatureOld
        /\ MessagesOf(b)[1].signature = tokenCreateEventSignature

\* C33 as stated: of two deliveries of one event, one with signature
\* '<prefix>:S' and one with signature S, both end alike with the same
\* messages; a delivery with the legacy pool-creation signature is translated
\* like one with the current signature.
C33_PrefixedLikeBare ==
    \A a, b \in 1..Len(history) :
        SameDelivery(a, b) =>
           /\ BehindPrefix(a, b) => SameTranslation(a, b)
           /\ LegacyAlike(a, b)

\* C33 amended: of two deliveries of one event, one with signature
\* '<prefix>:S' and one with signature S, where S has no ':' after its first
\* character, both end alike with the same messages; a delivery with the legacy
\* pool-creation signature ends like one with the current signature, with a
\* token-pool message equal but for the name and signature it repeats.
C33_PrefixedLikeBareOnce ==
    \A a, b \in 1..Len(history) :
        SameDelivery(a, b) =>
           /\ (BehindPrefix(a, b) /\ AfterFirstColon(history[b].event.signature) = {}) =>
                 SameTranslation(a, b)
           /\ LegacyAlike(a, b)

\* a transfer delivered with a prefixed signature and then with the bare one,
\* the URI answered alike: the same message twice
C33_Witness ==
    /\ Len(history) = 2
    /\ history[1].event.signature = "0x5e:" \o transferSingleEventSignature
    /\ history[2].event.signature = transferSingleEventSignature
    /\ SameDelivery(1, 2)
    /\ Len(sink) = 2
    /\ sink[1] = sink[2]
    /\ sink[1].signature = transferSingleEventSignature
    /\ sink[1].name = "TransferSingle"

-----------------------------------------------------------------------------
(* The legacy listener (the superseded TokenListener): the transfer
   translation and uriPattern, the URI pattern it fetches and keeps *)

\* the legacy encoding of a subscription name: topic, pool identifier, event
LegacyName(poolId, event) == <<<<topic>>, <<poolId>>, <<event>>>>

\* the legacy unpackSubscriptionName(topic, subName).poolId
LegacySubscribedPool(subName) ==
    IF Len(subName) = 3 /\ subName[1] = <<topic>> THEN subName[2][1] ELSE Undef

\* the case of the legacy onEvent switch: the signature is compared as delivered
LegacyKind(signature) ==
    IF signature = tokenCreateEventSignatureOld THEN "create"
    ELSE IF signature = transferSingleEventSignature THEN "single"
    ELSE IF signature = approvalForAllEventSignature THEN "approval"
    ELSE IF signature = transferBatchEventSignature THEN "batch"
    ELSE "unknown"

\* the legacy transformTokenCreateEvent: the pool of the type identifier
LegacyPoolMessage(subName, event) ==
    LET unpackedId == unpackTokenId(event.ids[1])
    IN IF LegacySubscribedPool(subName) # BASE_SUBSCRIPTION_NAME
          /\ LegacySubscribedPool(subName) # unpackedId.poolId
       THEN NoMessage
       ELSE [NoMessage EXCEPT
               !.event = "token-pool",
               !.poolLocator = <<unpackedId.poolId>>,
               !.type = IF unpackedId.isFungible THEN "fungible" ELSE "nonfungible",
               !.blockNumber = event.blockNumber,
               !.transactionIndex = event.transactionIndex,
               !.logIndex = event.logIndex,
               !.signature = event.signature]

\* the legacy transformApprovalForAllEvent
LegacyApprovalMessage(subName, event) ==
    [NoMessage EXCEPT
       !.event = "token-approval",
       !.poolLocator = <<LegacySubscribedPool(subName)>>,
       !.blockNumber = event.blockNumber,
       !.transactionIndex = event.transactionIndex,
       !.logIndex = event.logIndex,
       !.signature = event.signature]

\* the legacy transformTransferSingleEvent: the checks before the URI
LegacyTransferAccepted(subName, event, id) ==
    /\ LegacySubscribedPool(subName) = unpackTokenId(id).poolId
    /\ ~(event.from = ZERO_ADDRESS /\ event.to = ZERO_ADDRESS)

\* the legacy transfer message; every token, fungible or not, carries a URI
LegacyTransferMessage(subName, event, id, eventIndex, uri) ==
    LET kind == TransferKind(event.from, event.to)
    IN [NoMessage EXCEPT
          !.event = kind,
          !.id = TransferId(formatBlockchainEventId(event), eventIndex),
          !.poolLocator = <<unpackTokenId(id).poolId>>,
          !.tokenIndex = unpackTokenId(id).tokenIndex,
          !.uri = uri,
          !.from = IF kind = "token-mint" THEN Undef ELSE event.from,
          !.to = IF kind = "token-burn" THEN Undef ELSE event.to,
          !.blockNumber = event.blockNumber,
          !.transactionIndex = event.transactionIndex,
          !.logIndex = event.logIndex,
          !.signature = event.signature]

\* the legacy transformTransferSingleEvent up to the await of getTokenUri: the
\* pattern is fetched only while uriPattern is undefined
LegacyTransferEntry(t, fr, q) ==
    LET id == CurrentId(fr)
    IN IF ~ValidTokenId(id) THEN Throw(t, fr, q)
       ELSE IF ~LegacyTransferAccepted(fr.subName, fr.event, id)
       THEN TransferReturns(t, fr, q, NoMessage)
       ELSE IF uriPattern = NoPattern
       THEN IssueQuery(t, fr, q, "uri?input=0", "legacyUri")
       ELSE TransferReturns(t, fr, q,
                LegacyTransferMessage(fr.subName, fr.event, id, CurrentIndex(fr),
                                      TokenUriOf(uriPattern, id)))

\* what GET uri?input=0 answers: one of two patterns, a plain URI, or a failure
LegacyUriAnswers ==
    {<<"https://t/", "{id}">>, <<"https://u/", "{id}">>, <<"https://t/1">>, <<"failed">>}

\* the legacy getTokenUri settles: the answer is kept as the pattern and
\* applied to the token; a failure keeps nothing and gives ''
LegacyUriReturn(t) ==
    /\ pc[t] = "legacyUri"
    /\ \E answer \in LegacyUriAnswers :
         IF answer = <<"failed">>
         THEN /\ UNCHANGED uriPattern
              /\ TransferReturns(t, frame[t], Answered(t, answer[1]),
                     LegacyTransferMessage(frame[t].subName, frame[t].event,
                                           CurrentId(frame[t]), CurrentIndex(frame[t]),
                                           <<>>))
         ELSE /\ uriPattern' = answer
              /\ TransferReturns(t, frame[t], Answered(t, answer[1]),
                     LegacyTransferMessage(frame[t].subName, frame[t].event,
                                           CurrentId(frame[t]), CurrentIndex(frame[t]),
                                           TokenUriOf(answer, CurrentId(frame[t]))))
    /\ UNCHANGED <<streams, subs, stream, proxyTopic, history, op, loc, opsLeft>>
    /\ UNCHANGED supportsCustomUri

\* the loop of the legacy transformTransferBatchEvent
LegacyBatchStep(t) ==
    /\ pc[t] = "batch"
    /\ IF frame[t].index < Len(frame[t].event.ids)
       THEN LegacyTransferEntry(t, frame[t], queries)
       ELSE HandToSink(t, frame[t], queries, frame[t].messages)
    /\ UNCHANGED <<streams, subs, stream, proxyTopic, history, op, loc, opsLeft>>
    /\ UNCHANGED <<supportsCustomUri, uriPattern>>

\* the legacy onEvent up to its first await
LegacyOnEvent(t, subName, event) ==
    /\ BeginCall(t, "legacyOnEvent")
    /\ LET fr == [IdleFrame EXCEPT !.subName = subName, !.event = event,
                                   !.asked = Len(queries)]
           kind == LegacyKind(event.signature)
       IN IF kind = "create"
          THEN IF ~ValidTokenId(event.ids[1]) THEN Throw(t, fr, queries)
               ELSE HandToSink(t, fr, queries, <<LegacyPoolMessage(subName, event)>>)
          ELSE IF kind = "single" THEN LegacyTransferEntry(t, fr, queries)
          ELSE IF kind = "approval"
          THEN HandToSink(t, fr, queries, <<LegacyApprovalMessage(subName, event)>>)
          ELSE IF kind = "batch"
          THEN Goto(t, "batch", fr) /\ UNCHANGED <<queries, sink>>
          ELSE HandToSink(t, fr, queries, <<>>)
    /\ UNCHANGED supportsCustomUri

MaxLegacy == 2        \* events delivered to the legacy listener in one behaviour

LegacyIds == {<<"N", "2", "7">>, <<"N", "2", "0">>, <<"F", "1">>, <<"zz">>}

\* the deliveries to the legacy listener: transfers of the subscribed pool and of
\* another, an undecodable identifier, a transfer between zero addresses,
\* batches, a creation, an approval and a signature the switch does not know
LegacyDeliveries ==
    {<<LegacyName("N2", transferSingleEvent),
       Event(transferSingleEventSignature, "7", ZERO_ADDRESS, "0xabc", <<id>>)>> :
        id \in LegacyIds}
    \cup {<<LegacyName("F1", transferSingleEvent),
            Event(transferSingleEventSignature, "7", "0xabc", "0xdef", <<<<"F", "1">>>>)>>,
          <<LegacyName("N2", transferSingleEvent),
            Event(transferSingleEventSignature, "7", ZERO_ADDRESS, ZERO_ADDRESS,
                  <<<<"N", "2", "7">>>>)>>,
          <<LegacyName("N2", transferSingleEvent),
            Event("0x5e:" \o transferSingleEventSignature, "7", ZERO_ADDRESS, "0xabc",
                  <<<<"N", "2", "7">>>>)>>,
          <<LegacyName(BASE_SUBSCRIPTION_NAME, "TokenCreate"),
            Event(tokenCreateEventSignatureOld, "7", Undef, Undef, <<<<"N", "2", "0">>>>)>>,
          <<LegacyName("N2", approvalForAllEvent),
            Event(approvalForAllEventSignature, "7", Undef, Undef, <<>>)>>}
    \cup {<<LegacyName("N2", transferBatchEvent),
            Event(transferBatchEventSignature, "7", ZERO_ADDRESS, "0xabc", ids)>> :
        ids \in {<<<<"N", "2", "7">>, <<"N", "2", "0">>>>,
                  <<<<"F", "1">>, <<"N", "2", "7">>>>,
                  <<<<"N", "2", "7">>, <<"zz">>>>}}

StartLegacy(t) ==
    \E delivery \in LegacyDeliveries : LegacyOnEvent(t, delivery[1], delivery[2])

InitLegacy ==
    /\ streams = {}
    /\ subs = <<>>
    /\ InitTasks
    /\ opsLeft = MaxLegacy

\* the legacy listener with deliveries that may overlap: the translation of one
\* event stands at its fetch while the next event is delivered
NextLegacy ==
    \E t \in Tasks :
        \/ StartLegacy(t)
        \/ LegacyBatchStep(t)
        \/ LegacyUriReturn(t)
        \/ Finish(t)

SpecLegacy == InitLegacy /\ [][NextLegacy]_vars

-----------------------------------------------------------------------------
(* The URI pattern of the legacy listener *)

\* the fetches of the pattern issued so far, and those that have succeeded
PatternFetches == {k \in 1..Len(queries) : queries[k].method = "uri?input=0"}

SucceededFetches == {k \in PatternFetches : queries[k].answer \notin {"pending", "failed"}}

\* the task takes this step
Moves(t) == pc'[t] # pc[t] \/ frame'[t] # frame[t]

\* on this step the task enters the translation of one transfer, of a single
\* event or of the next entry of a batch
EntersTransfer(t) ==
    /\ Moves(t)
    /\ \/ pc[t] = "idle" /\ LegacyKind(frame'[t].event.signature) = "single"
       \/ pc[t] = "batch" /\ frame[t].index < Len(frame[t].event.ids)

EnteredId(t) == frame'[t].event.ids[frame[t].index + 1]

\* the transfer entered is one the translation accepts
EntersAccepted(t) ==
    /\ EntersTransfer(t)
    /\ ValidTokenId(EnteredId(t))
    /\ LegacyTransferAccepted(frame'[t].subName, frame'[t].event, EnteredId(t))

\* on this step the translation of a transfer returns a message with the URI:
\* collected by a batch, handed to the processor by a single event
ReturnsWithUri(t, uri) ==
    IF IsBatch(frame'[t].event)
    THEN /\ pc'[t] = "batch"
         /\ Len(frame'[t].messages) = Len(frame[t].messages) + 1
         /\ frame'[t].messages[Len(frame'[t].messages)].uri = uri
    ELSE /\ pc'[t] = "done"
         /\ Len(sink') = Len(sink) + 1
         /\ sink'[Len(sink')].uri = uri

\* C34: in the legacy translator the URI pattern is resolved once and reused
\* forever. The pattern is cached exactly when a fetch has succeeded; once one
\* has, no further fetch is issued, the cached pattern never changes and every
\* transfer translated afterwards takes its URI from the cached pattern; while
\* none has, every accepted transfer fetches the pattern again, and a fetch that
\* fails gives the empty URI, caches nothing and does not fail the event.
C34_PatternResolvedOnce ==
    /\ []((uriPattern # NoPattern) <=> (SucceededFetches # {}))
    /\ [][/\ SucceededFetches # {} =>
               /\ Len(queries') = Len(queries)
               /\ uriPattern' = uriPattern
          /\ \A t \in Tasks :
               /\ EntersAccepted(t) /\ SucceededFetches # {} =>
                    ReturnsWithUri(t, TokenUriOf(uriPattern, EnteredId(t)))
               /\ EntersAccepted(t) /\ SucceededFetches = {} =>
                    /\ pc'[t] = "legacyUri"
                    /\ Len(queries') = Len(queries) + 1
                    /\ queries'[Len(queries')].method = "uri?input=0"
               /\ pc[t] = "legacyUri" /\ Moves(t)
                    /\ queries'[frame[t].query].answer = "failed" =>
                    /\ ReturnsWithUri(t, <<>>)
                    /\ uriPattern' = uriPattern]_vars

====
